---------------------------- MODULE Spec2Model ----------------------------
(***************************************************************************)
(* WasteLess recipe recommendation engine.                                 *)
(*                                                                         *)
(* Models backend/src/services/RecipeRecommendationService.ts and          *)
(* backend/src/utils/maxFlow.ts.                                           *)
(*                                                                         *)
(* Numbers.  The program computes in IEEE doubles.  The model computes in  *)
(* fixed point: a number x is the integer floor(x * 1000) ("milli").       *)
(* Every constant of the program used below is a multiple of 0.001, so     *)
(* sums, products with integers, min, max and Math.round are exact; only   *)
(* divisions, square roots and fractional powers are truncated to 0.001.   *)
(* NaN is the single value NaN, which no comparison accepts.               *)
(*                                                                         *)
(* Strings.  A string is a sequence of one-character strings, so that      *)
(* toLowerCase, the regular expressions of normalizeIngredient, includes   *)
(* and split can be computed as the code computes them.                    *)
(***************************************************************************)
EXTENDS Integers, Sequences, FiniteSets, TLC

VARIABLES
    pc,            \* position of the request inside getRecommendedRecipes
    request,       \* [mealType, count, prioritizeExpiring, selectedIngredients]
    dbInventory,   \* the Ingredient collection of the user (a sequence of documents)
    dbRecipes,     \* the Recipe collection (a sequence of documents)
    ingredients,   \* result of `await Ingredient.find({ userId })`
    recipes,       \* result of `await recipesQuery.limit(1000)`
    weighted,      \* weightedIngredients
    algoRecipes,   \* algoRecipes (convertDbRecipesToAlgoFormat)
    graph,         \* flowNetwork: [vertices, edges, filteredRecipes, preferredMealType]
    solver,        \* edmondsKarp locals: [residualEdges, flow, flowPaths, ran, failed]
    scored,        \* recipeScores inside findOptimalRecipeWithAlternatives
    recommended,   \* return value of findOptimalRecipeWithAlternatives
    result,        \* return value of getRecommendedRecipes
    outcome,       \* "pending" | "returned" | "threw"
    errorSource,   \* "none" | "db" | "computation"
    path,          \* which branch produced `recommended`: "none"|"normal"|"nomatch"|"error"
    call           \* arguments and results of a direct call of an exported/pure function

vars == <<pc, request, dbInventory, dbRecipes, ingredients, recipes, weighted,
          algoRecipes, graph, solver, scored, recommended, result, outcome,
          errorSource, path, call>>

-----------------------------------------------------------------------------
(* Bounds of the model *)

MaxInventory == 2
MaxRecipes == 2
MaxCount == 2
MaxIngredients == 4

-----------------------------------------------------------------------------
(* Fixed point numbers *)

Scale == 10 * 100

NaN == 0 - (2 ^ 30)

IsNaN(x) == x = NaN

Min(a, b) == IF a <= b THEN a ELSE b
Max(a, b) == IF a >= b THEN a ELSE b

\* x * y for two milli numbers: (x * y) \div Scale, computed on the whole and
\* the fractional part of x so that the intermediate product stays small
Mul(x, y) == (x \div Scale) * y + ((x % Scale) * y) \div Scale

\* x / y for two milli numbers, y # 0
Div(x, y) == (x * Scale) \div y

\* Math.round of a milli number, as an integer: floor(x + 0.5)
Round(x) == (x + (Scale \div 2)) \div Scale

\* Math.floor of a milli number, as an integer
Floor(x) == x \div Scale

RECURSIVE ISqrtSearch(_, _, _)
ISqrtSearch(n, lo, hi) ==
    IF lo >= hi THEN lo
    ELSE LET mid == (lo + hi + 1) \div 2
         IN IF mid * mid <= n THEN ISqrtSearch(n, mid, hi)
            ELSE ISqrtSearch(n, lo, mid - 1)

\* floor of the square root of the natural number n (n < 2^31)
ISqrt(n) == ISqrtSearch(n, 0, Min(n, 46340))

\* Math.sqrt of a milli number x in [0, 2000]; NaN for x < 0
Sqrt(x) == IF x < 0 THEN NaN ELSE ISqrt(x * Scale)

RECURSIVE ICbrtSearch(_, _, _)
ICbrtSearch(n, lo, hi) ==
    IF lo >= hi THEN lo
    ELSE LET mid == (lo + hi + 1) \div 2
         IN IF mid * mid * mid <= n THEN ICbrtSearch(n, mid, hi)
            ELSE ICbrtSearch(n, lo, mid - 1)

\* cube root of a milli number x >= 0: reduce x by powers of 8 into [0, 2), take
\* the integer cube root of x * 10^6 there, and scale back by powers of 2
RECURSIVE Cbrt(_)
Cbrt(x) ==
    IF x >= 2 * Scale THEN 2 * Cbrt(x \div 8)
    ELSE ICbrtSearch(x * Scale * Scale, 0, 1290)

RECURSIVE IntPow(_, _)
IntPow(x, k) == IF k = 0 THEN Scale ELSE Mul(x, IntPow(x, k - 1))

\* x^k as IntPow computes it, or a number above cap as soon as a partial
\* product of x >= 1 is above cap (the powers of such an x only grow)
RECURSIVE CappedPow(_, _, _)
CappedPow(x, k, cap) ==
    IF k = 0 THEN Scale
    ELSE LET rest == CappedPow(x, k - 1, cap)
         IN IF x >= Scale /\ rest > cap THEN rest ELSE Mul(x, rest)

\* the largest milli number r in lo..hi with r^den <= x
RECURSIVE RootSearch(_, _, _, _)
RootSearch(x, den, lo, hi) ==
    IF lo >= hi THEN lo
    ELSE LET mid == (lo + hi + 1) \div 2
         IN IF CappedPow(mid, den, x) <= x THEN RootSearch(x, den, mid, hi)
            ELSE RootSearch(x, den, lo, mid - 1)

\* x^(1/den) for a milli number x >= 0 (x < 3^den for den > 4)
Root(x, den) ==
    CASE den = 1 -> x
      [] den = 2 -> Sqrt(x)
      [] den = 3 -> Cbrt(x)
      [] den = 4 -> Sqrt(Sqrt(x))
      [] OTHER -> RootSearch(x, den, 0, 3 * Scale)

\* Math.pow(x, num/den) for a milli number x >= 0 and a fraction num/den >= 0:
\* x^(num div den) * (x^(1/den))^(num mod den)
Pow(x, num, den) ==
    Mul(IntPow(x, num \div den), IntPow(Root(x, den), num % den))

-----------------------------------------------------------------------------
(* Strings: sequences of one-character strings *)

\* a field that is missing from a record (JavaScript undefined)
Undefined == <<"undefined">>

\* an absent array of strings, an absent array of recipes, an absent plain string
UndefinedList == <<Undefined>>
UndefinedRecipes == <<[id |-> "undefined"]>>
UndefinedString == "undefined"

UpperToLower ==
    "A" :> "a" @@ "B" :> "b" @@ "C" :> "c" @@ "D" :> "d" @@ "E" :> "e" @@
    "F" :> "f" @@ "G" :> "g" @@ "H" :> "h" @@ "I" :> "i" @@ "J" :> "j" @@
    "K" :> "k" @@ "L" :> "l" @@ "M" :> "m" @@ "N" :> "n" @@ "O" :> "o" @@
    "P" :> "p" @@ "Q" :> "q" @@ "R" :> "r" @@ "S" :> "s" @@ "T" :> "t" @@
    "U" :> "u" @@ "V" :> "v" @@ "W" :> "w" @@ "X" :> "x" @@ "Y" :> "y" @@
    "Z" :> "z"

LowerLetters == {UpperToLower[c] : c \in DOMAIN UpperToLower}
Digits == {"0", "1", "2", "3", "4", "5", "6", "7", "8", "9"}

\* \w of a regular expression
WordChars == LowerLetters \cup DOMAIN UpperToLower \cup Digits \cup {"_"}
IsWordChar(c) == c \in WordChars

\* \s of a regular expression
IsSpace(c) == c \in {" ", "\t", "\n"}

\* the character class [.,;:!?'"()]
IsPunctuation(c) == c \in {".", ",", ";", ":", "!", "?", "'", "\"", "(", ")"}

\* String.prototype.toLowerCase
ToLowerCase(s) ==
    [i \in 1..Len(s) |-> IF s[i] \in DOMAIN UpperToLower THEN UpperToLower[s[i]] ELSE s[i]]

\* String.prototype.includes
Includes(hay, needle) ==
    \E i \in 0..(Len(hay) - Len(needle)) :
        \A k \in 1..Len(needle) : hay[i + k] = needle[k]

\* s.replace(/\s+/g, ' ')
RECURSIVE CollapseSpaces(_)
CollapseSpaces(s) ==
    IF s = <<>> THEN <<>>
    ELSE IF IsSpace(Head(s))
         THEN IF Len(s) > 1 /\ IsSpace(s[2])
              THEN CollapseSpaces(Tail(s))
              ELSE <<" ">> \o CollapseSpaces(Tail(s))
         ELSE <<Head(s)>> \o CollapseSpaces(Tail(s))

\* the alternatives of /\b(of|the|and|&)\b/, in the order the regular expression tries them
FillerWords == << <<"o", "f">>, <<"t", "h", "e">>, <<"a", "n", "d">>, <<"&">> >>

\* \b between position i and i + 1 of s (i in 0..Len(s))
WordBoundary(s, i) ==
    LET before == i >= 1 /\ IsWordChar(s[i])
        after == i < Len(s) /\ IsWordChar(s[i + 1])
    IN before # after

\* the filler word the regular expression matches starting at position i of s, or <<>>
FillerAt(s, i) ==
    LET hits == {k \in 1..Len(FillerWords) :
                    /\ i + Len(FillerWords[k]) - 1 <= Len(s)
                    /\ SubSeq(s, i, i + Len(FillerWords[k]) - 1) = FillerWords[k]
                    /\ WordBoundary(s, i - 1)
                    /\ WordBoundary(s, i + Len(FillerWords[k]) - 1)}
    IN IF hits = {} THEN <<>>
       ELSE FillerWords[CHOOSE k \in hits : \A j \in hits : k <= j]

\* s.replace(/\b(of|the|and|&)\b/g, ''), scanning s from position i
RECURSIVE RemoveFillersFrom(_, _)
RemoveFillersFrom(s, i) ==
    IF i > Len(s) THEN <<>>
    ELSE LET w == FillerAt(s, i)
         IN IF w = <<>> THEN <<s[i]>> \o RemoveFillersFrom(s, i + 1)
            ELSE RemoveFillersFrom(s, i + Len(w))

\* s.replace(/[.,;:!?'"()]/g, '')
RemovePunctuation(s) == SelectSeq(s, LAMBDA c : ~IsPunctuation(c))

\* String.prototype.trim
RECURSIVE TrimLeft(_)
TrimLeft(s) == IF s # <<>> /\ IsSpace(Head(s)) THEN TrimLeft(Tail(s)) ELSE s

RECURSIVE TrimRight(_)
TrimRight(s) ==
    IF s # <<>> /\ IsSpace(s[Len(s)]) THEN TrimRight(SubSeq(s, 1, Len(s) - 1)) ELSE s

Trim(s) == TrimRight(TrimLeft(s))

\* s.split(' '): the pieces between single spaces, empty pieces included
RECURSIVE SplitFrom(_, _)
SplitFrom(s, cur) ==
    IF s = <<>> THEN <<cur>>
    ELSE IF Head(s) = " " THEN <<cur>> \o SplitFrom(Tail(s), <<>>)
         ELSE SplitFrom(Tail(s), Append(cur, Head(s)))

Split(s) == SplitFrom(s, <<>>)

-----------------------------------------------------------------------------
(* Fuzzy ingredient matcher *)

normalizeIngredient(ing) ==
    Trim(RemovePunctuation(RemoveFillersFrom(CollapseSpaces(ToLowerCase(ing)), 1)))

\* the words of a normalized string that findBestIngredientMatch compares
SignificantWords(s) == SelectSeq(Split(s), LAMBDA w : Len(w) > 2)

\* the word-match tier: the largest wordImportance over the matching word pairs, else 0
WordMatchQuality(inv, rec) ==
    LET iw == SignificantWords(inv)
        rw == SignificantWords(rec)
        hits == {i \in 1..Len(iw) :
                    \E j \in 1..Len(rw) :
                        \/ iw[i] = rw[j]
                        \/ (Len(iw[i]) > 4 /\ Includes(rw[j], iw[i]))
                        \/ (Len(rw[j]) > 4 /\ Includes(iw[i], rw[j]))}
        vals == {Min(900, 600 + 50 * Len(iw[i])) : i \in hits}
    IN IF vals = {} THEN 0 ELSE CHOOSE v \in vals : \A u \in vals : u <= v

\* a matcher whose containment tier starts at 0.6
MatchQualityFrom600(inv, rec) ==
    IF rec = inv THEN 1000
    ELSE IF Includes(rec, inv) \/ Includes(inv, rec)
         THEN LET short == Min(Len(inv), Len(rec))
                  long == Max(Len(inv), Len(rec))
              IN 600 + (250 * short) \div long
         ELSE WordMatchQuality(inv, rec)

\* matchQuality of one recipe ingredient string against the inventory name
\* (both normalized): exact, containment, word match
MatchQuality(inv, rec) ==
    IF rec = inv THEN 1000
    ELSE IF Includes(rec, inv) \/ Includes(inv, rec)
         THEN LET short == Min(Len(inv), Len(rec))
                  long == Max(Len(inv), Len(rec))
              IN 700 + (250 * short) \div long
         ELSE WordMatchQuality(inv, rec)

RECURSIVE BestMatchFrom(_, _, _, _)
BestMatchFrom(inv, recipeIngredients, i, best) ==
    IF i > Len(recipeIngredients) THEN best
    ELSE LET q == MatchQuality(inv, normalizeIngredient(recipeIngredients[i]))
         IN BestMatchFrom(inv, recipeIngredients, i + 1,
                IF q > best.quality
                THEN [ingredient |-> recipeIngredients[i], quality |-> q]
                ELSE best)

NoMatch == [ingredient |-> Undefined, quality |-> 0]

\* a matcher that keeps the last string of the best quality
RECURSIVE LastBestMatchFrom(_, _, _, _)
LastBestMatchFrom(inv, recipeIngredients, i, best) ==
    IF i > Len(recipeIngredients) THEN best
    ELSE LET q == MatchQuality(inv, normalizeIngredient(recipeIngredients[i]))
         IN LastBestMatchFrom(inv, recipeIngredients, i + 1,
                IF q > 0 /\ q >= best.quality
                THEN [ingredient |-> recipeIngredients[i], quality |-> q]
                ELSE best)

findLastBestIngredientMatch(ingredientName, recipeIngredients) ==
    LastBestMatchFrom(normalizeIngredient(ingredientName), recipeIngredients, 1, NoMatch)

findBestIngredientMatch(ingredientName, recipeIngredients) ==
    BestMatchFrom(normalizeIngredient(ingredientName), recipeIngredients, 1, NoMatch)

-----------------------------------------------------------------------------
(* Documents of the two collections the service reads.                     *)
(* An Ingredient document: quantity in milli, expiresIn = days from today  *)
(* to expiryDate (hasExpiry = FALSE: no expiryDate).  The schema puts no   *)
(* lower limit on quantity and addIngredient saves the request body as it  *)
(* is, so a negative quantity can be stored.  Mongoose does not validate   *)
(* on read: a stored document may lack its name.                           *)

InventoryCatalog == <<
    [id |-> "a1", name |-> <<"S", "p", "i", "n", "a", "c", "h">>, quantity |-> 1000, unit |-> "unit",
     hasExpiry |-> TRUE, expiresIn |-> 2, aboutToExpire |-> TRUE],
    [id |-> "a2", name |-> <<"S", "p", "i", "n", "a", "c", "h">>, quantity |-> 3000, unit |-> "unit",
     hasExpiry |-> TRUE, expiresIn |-> 2, aboutToExpire |-> FALSE],
    [id |-> "a3", name |-> <<"M", "i", "l", "k">>, quantity |-> 500, unit |-> "Liter",
     hasExpiry |-> TRUE, expiresIn |-> 10, aboutToExpire |-> FALSE],
    [id |-> "a4", name |-> <<"S", "e", "a", " ", "S", "a", "l", "t">>, quantity |-> 1000, unit |-> "kg",
     hasExpiry |-> FALSE, expiresIn |-> 0, aboutToExpire |-> FALSE],
    [id |-> "a5", name |-> <<"E", "g", "g", "s">>, quantity |-> 0 - 2000, unit |-> "unit",
     hasExpiry |-> TRUE, expiresIn |-> 0 - 4, aboutToExpire |-> TRUE],
    [id |-> "a6", name |-> Undefined, quantity |-> 1000, unit |-> "unit",
     hasExpiry |-> FALSE, expiresIn |-> 0, aboutToExpire |-> FALSE] >>

\* A Recipe document.  The importer stores only recipes with at least one
\* ingredient and one instruction; title, image and instructions are copied
\* to the result unchanged and are left out.
RecipeCatalog == <<
    [id |-> "r1", ingredients |-> << <<"S", "p", "i", "n", "a", "c", "h">> >>, mealType |-> "any"],
    [id |-> "r2", ingredients |-> << <<"S", "p", "i", "n", "a", "c", "h">> >>, mealType |-> "dinner"],
    [id |-> "r3", ingredients |-> << <<"2", " ", "c", "u", "p", "s", " ", "o", "f", " ", "M", "i", "l", "k">>,
                                    <<"S", "p", "i", "n", "a", "c", "h">>,
                                    <<"3", " ", "E", "g", "g", "s">> >>,
     mealType |-> "dinner"],
    [id |-> "r4", ingredients |-> << <<"B", "u", "t", "t", "e", "r">>,
                                    <<"1", " ", "t", "b", "s", "p", " ", "O", "l", "i", "v", "e", " ", "O", "i", "l">> >>,
     mealType |-> "breakfast"] >>

MealTypes == {"any", "dinner"}

\* options of a request: prioritizeExpiring and selectedIngredients (UndefinedList: absent)
RequestOptions ==
    { [prioritizeExpiring |-> TRUE, selectedIngredients |-> UndefinedList],
      [prioritizeExpiring |-> FALSE, selectedIngredients |-> << <<"m", "i", "l", "k">>, <<"S", "P", "I", "N", "A", "C", "H">> >>] }

\* values of Math.random() the model draws: 0, 0.5 and 0.999 (Math.random() < 1)
RandomDraws == {0, 500, 999}

\* the two extreme draws, where only the range of the outcome is of interest
ExtremeDraws == {0, 999}

\* the subsequences of seq with at most n elements, in the order of seq
RECURSIVE SubSeqsOf(_, _)
SubSeqsOf(seq, n) ==
    IF seq = <<>> \/ n = 0 THEN {<<>>}
    ELSE SubSeqsOf(Tail(seq), n)
         \cup {<<Head(seq)>> \o t : t \in SubSeqsOf(Tail(seq), n - 1)}

-----------------------------------------------------------------------------
(* Helpers on sequences *)

\* seq[lo] + ... + seq[hi], added up by halves
RECURSIVE SumFrom(_, _, _)
SumFrom(seq, lo, hi) ==
    IF lo > hi THEN 0
    ELSE IF lo = hi THEN seq[lo]
    ELSE LET mid == (lo + hi) \div 2
         IN SumFrom(seq, lo, mid) + SumFrom(seq, mid + 1, hi)

SumSeq(seq) == SumFrom(seq, 1, Len(seq))

Range(seq) == {seq[i] : i \in 1..Len(seq)}

\* the sequence seq itself, with every element computed once
Evaluated(seq) == seq \o <<>>

\* a list that is not cut
SliceNothing(seq, count) == seq

\* Array.prototype.slice(0, count) for an integer count >= 0
Slice(seq, count) == SubSeq(seq, 1, Min(count, Len(seq)))

\* [...new Set(seq)]: the first occurrence of every element, in order
RECURSIVE Dedupe(_)
Dedupe(seq) ==
    IF Len(seq) <= 1 THEN seq
    ELSE LET mid == Len(seq) \div 2
             front == Dedupe(SubSeq(seq, 1, mid))
             back == Dedupe(SubSeq(seq, mid + 1, Len(seq)))
         IN front \o SelectSeq(back, LAMBDA x : x \notin Range(front))

-----------------------------------------------------------------------------
(* RecipeRecommendationService.convertToWeightedIngredients *)

\* the inventory filter of selectedIngredients
SelectionMatches(name, selectedIngredients) ==
    \E k \in 1..Len(selectedIngredients) :
        \/ Includes(ToLowerCase(name), ToLowerCase(selectedIngredients[k]))
        \/ Includes(ToLowerCase(selectedIngredients[k]), ToLowerCase(name))

HasSelection(options) ==
    options.selectedIngredients # UndefinedList /\ Len(options.selectedIngredients) > 0

\* ing.name.toLowerCase() raises a TypeError on a document without a name
convertToWeightedIngredientsThrows(ings, options) ==
    HasSelection(options) /\ \E i \in 1..Len(ings) : ings[i].name = Undefined

daysUntilExpiryOf(ingredient) ==
    IF ingredient.hasExpiry THEN Max(0 - 1, ingredient.expiresIn) ELSE 999

\* the weight of the expiry tiers alone, without the boost of a selection
UrgencyWeight(ingredient, options) ==
    LET days == daysUntilExpiryOf(ingredient)
        expiryMultiplier == IF options.prioritizeExpiring THEN 3000 ELSE 1500
    IN IF ingredient.aboutToExpire THEN Mul(3000, expiryMultiplier)
       ELSE IF days <= 0 THEN Mul(5000, expiryMultiplier)
       ELSE IF days <= 3 THEN Mul(4000, expiryMultiplier)
       ELSE IF days <= 7 THEN Mul(2000, expiryMultiplier)
       ELSE 1000

WeightOf(ingredient, options) ==
    LET days == daysUntilExpiryOf(ingredient)
        expiryMultiplier == IF options.prioritizeExpiring THEN 3000 ELSE 1500
        urgency == IF ingredient.aboutToExpire THEN Mul(3000, expiryMultiplier)
                   ELSE IF days <= 0 THEN Mul(5000, expiryMultiplier)
                   ELSE IF days <= 3 THEN Mul(4000, expiryMultiplier)
                   ELSE IF days <= 7 THEN Mul(2000, expiryMultiplier)
                   ELSE 1000
        selected == /\ options.selectedIngredients # UndefinedList
                    /\ SelectionMatches(ingredient.name, options.selectedIngredients)
    IN IF selected THEN Mul(urgency, 2000) ELSE urgency

convertToWeightedIngredients(ings, options) ==
    LET filtered == IF HasSelection(options)
                    THEN SelectSeq(ings, LAMBDA ing :
                             SelectionMatches(ing.name, options.selectedIngredients))
                    ELSE ings
    IN [i \in 1..Len(filtered) |->
           [id |-> filtered[i].id,
            name |-> filtered[i].name,
            weight |-> WeightOf(filtered[i], options),
            daysUntilExpiry |-> daysUntilExpiryOf(filtered[i]),
            quantity |-> filtered[i].quantity,
            unit |-> filtered[i].unit]]

(* RecipeRecommendationService.convertDbRecipesToAlgoFormat; draws[i] is the
   value of Math.random() for recipe i *)
InitialScore(recipe, mealType, draw) ==
    LET baseScore == Floor(draw * 50) + 40
        mealTypeBoost == IF recipe.mealType = mealType THEN 1500
                         ELSE IF recipe.mealType = "any" THEN 1200 ELSE 1000
        complexityFactor == 1000 + (Len(recipe.ingredients) % 5) * 100
    IN Mul(baseScore * mealTypeBoost, complexityFactor)

convertDbRecipesToAlgoFormat(recs, mealType, draws) ==
    [i \in 1..Len(recs) |->
        [id |-> recs[i].id,
         ingredients |-> recs[i].ingredients,
         mealType |-> recs[i].mealType,
         score |-> InitialScore(recs[i], mealType, draws[i])]]

-----------------------------------------------------------------------------
(* maxFlow.ts: the flow network *)

NutritionCategories == <<"protein", "vegetables", "grains", "dairy">>

NutritionKeywords ==
    "protein" :> {
        <<"m", "e", "a", "t">>, <<"c", "h", "i", "c", "k", "e", "n">>,
        <<"b", "e", "e", "f">>, <<"p", "o", "r", "k">>, <<"f", "i", "s", "h">>,
        <<"t", "o", "f", "u">>, <<"l", "e", "n", "t", "i", "l">>, <<"b", "e", "a", "n">>,
        <<"e", "g", "g">>, <<"n", "u", "t", "s">>, <<"s", "e", "e", "d">>,
        <<"p", "r", "o", "t", "e", "i", "n">>} @@
    "vegetables" :> {
        <<"v", "e", "g", "e", "t", "a", "b", "l", "e">>, <<"c", "a", "r", "r", "o", "t">>,
        <<"b", "r", "o", "c", "c", "o", "l", "i">>, <<"s", "p", "i", "n", "a", "c", "h">>,
        <<"k", "a", "l", "e">>, <<"t", "o", "m", "a", "t", "o">>,
        <<"p", "e", "p", "p", "e", "r">>, <<"o", "n", "i", "o", "n">>,
        <<"l", "e", "t", "t", "u", "c", "e">>, <<"c", "a", "b", "b", "a", "g", "e">>,
        <<"z", "u", "c", "c", "h", "i", "n", "i">>,
        <<"e", "g", "g", "p", "l", "a", "n", "t">>,
        <<"c", "u", "c", "u", "m", "b", "e", "r">>, <<"a", "v", "o", "c", "a", "d", "o">>} @@
    "grains" :> {
        <<"r", "i", "c", "e">>, <<"p", "a", "s", "t", "a">>, <<"b", "r", "e", "a", "d">>,
        <<"f", "l", "o", "u", "r">>, <<"o", "a", "t">>, <<"g", "r", "a", "i", "n">>,
        <<"w", "h", "e", "a", "t">>, <<"q", "u", "i", "n", "o", "a">>,
        <<"b", "a", "r", "l", "e", "y">>, <<"c", "e", "r", "e", "a", "l">>,
        <<"c", "o", "r", "n">>, <<"c", "o", "u", "s", "c", "o", "u", "s">>,
        <<"t", "o", "r", "t", "i", "l", "l", "a">>} @@
    "dairy" :> {
        <<"m", "i", "l", "k">>, <<"c", "h", "e", "e", "s", "e">>,
        <<"y", "o", "g", "u", "r", "t">>, <<"c", "r", "e", "a", "m">>,
        <<"b", "u", "t", "t", "e", "r">>, <<"d", "a", "i", "r", "y">>,
        <<"c", "h", "e", "d", "d", "a", "r">>,
        <<"m", "o", "z", "z", "a", "r", "e", "l", "l", "a">>,
        <<"p", "a", "r", "m", "e", "s", "a", "n">>}

\* unit.toLowerCase() for the units of the catalog and of UnitNames
UnitLower(unit) ==
    CASE unit = "Liter" -> "liter"
      [] unit = "KG" -> "kg"
      [] unit = "Kilo" -> "kilo"
      [] unit = "Kilogram" -> "kilogram"
      [] unit = "L" -> "l"
      [] unit = "Tbsp" -> "tbsp"
      [] unit = "Tablespoon" -> "tablespoon"
      [] unit = "TSP" -> "tsp"
      [] unit = "Cup" -> "cup"
      [] OTHER -> unit

\* a conversion that compares the unit as it is written
normalizeQuantityExactCase(quantity, unit) ==
    CASE unit \in {"kilo", "kg"} -> quantity * 1000
      [] unit \in {"liter", "l"} -> quantity * 1000
      [] unit = "tbsp" -> quantity * 15
      [] unit = "tsp" -> quantity * 5
      [] unit = "cup" -> quantity * 240
      [] OTHER -> quantity

normalizeQuantity(quantity, unit) ==
    LET u == UnitLower(unit)
    IN CASE u \in {"kilo", "kg"} -> quantity * 1000
         [] u \in {"liter", "l"} -> quantity * 1000
         [] u = "tbsp" -> quantity * 15
         [] u = "tsp" -> quantity * 5
         [] u = "cup" -> quantity * 240
         [] OTHER -> quantity

calculateExpiryFactor(daysUntilExpiry) == IF daysUntilExpiry <= 7 THEN 5000 ELSE 1000

\* the boost of a recipe under the preferred meal type (buildFlowNetwork and the scorer)
MealTypeBoost(recipe, preferredMealType) ==
    IF recipe.mealType = preferredMealType THEN 2500
    ELSE IF recipe.mealType = "any" THEN 1200 ELSE 800

SourceVertex == "s"
SinkVertex == "t"
IngredientVertex(id) == "i_" \o id
RecipeVertex(id) == "r_" \o id
NutritionVertex(category) == "n_" \o category
BalancedVertex == "balanced_meal"

\* an Edge; the annotations the scorer never reads (expiryWeight, quantityFactor,
\* totalImportance, ...) are left out
NewEdge(capacity, matchQuality, matchedWith, nutritionBoost) ==
    [capacity |-> capacity, flow |-> 0, matchQuality |-> matchQuality,
     matchedWith |-> matchedWith, nutritionBoost |-> nutritionBoost]

\* no recipe filtered out
FilterNothing(recs, preferredMealType) == recs

FilterByMealType(recs, preferredMealType) ==
    IF preferredMealType # "any"
    THEN SelectSeq(recs, LAMBDA r : r.mealType = preferredMealType \/ r.mealType = "any")
    ELSE recs

\* a buildFlowNetwork that tolerates an ingredient without a name
buildFlowNetworkNeverThrows(weightedIngredients, recs, preferredMealType) == FALSE

\* ingredient.name.toLowerCase() raises a TypeError on an ingredient without a name
buildFlowNetworkThrows(weightedIngredients, recs, preferredMealType) ==
    /\ FilterByMealType(recs, preferredMealType) # <<>>
    /\ \E i \in 1..Len(weightedIngredients) : weightedIngredients[i].name = Undefined

\* the nutrition matchCount of a recipe for a category
NutritionMatchCount(recipe, category) ==
    Cardinality({k \in 1..Len(recipe.ingredients) :
        LET lowered == ToLowerCase(recipe.ingredients[k])
        IN \E keyword \in NutritionKeywords[category] : Includes(lowered, keyword)})

\* matchCount of every category (in the order of NutritionCategories) for every
\* filtered recipe
NutritionTable(filteredRecipes) ==
    Evaluated([j \in 1..Len(filteredRecipes) |->
        <<NutritionMatchCount(filteredRecipes[j], NutritionCategories[1]),
          NutritionMatchCount(filteredRecipes[j], NutritionCategories[2]),
          NutritionMatchCount(filteredRecipes[j], NutritionCategories[3]),
          NutritionMatchCount(filteredRecipes[j], NutritionCategories[4])>>])

\* findBestIngredientMatch of every ingredient (second index) against every
\* filtered recipe (first index)
MatchTable(weightedIngredients, filteredRecipes) ==
    Evaluated([j \in 1..Len(filteredRecipes) |->
        Evaluated([i \in 1..Len(weightedIngredients) |->
            findBestIngredientMatch(ToLowerCase(weightedIngredients[i].name),
                                    filteredRecipes[j].ingredients)])])

\* every ingredient, whatever its match
AllIndexes(matches, j) == 1..Len(matches[j])

\* the ingredients (by index) that get an edge to recipe j: matchQuality >= 0.6
MatchedIndexes(matches, j) ==
    {i \in 1..Len(matches[j]) : matches[j][i].quality >= 600}

SourceEdges(weightedIngredients) ==
    [e \in {<<SourceVertex, IngredientVertex(weightedIngredients[i].id)>> :
                i \in 1..Len(weightedIngredients)} |->
        LET i == CHOOSE k \in 1..Len(weightedIngredients) :
                     IngredientVertex(weightedIngredients[k].id) = e[2]
        IN NewEdge(normalizeQuantity(weightedIngredients[i].quantity,
                                     weightedIngredients[i].unit), 0, Undefined, 0)]

MatchEdges(weightedIngredients, filteredRecipes, matches) ==
    LET pairs == {<<i, j>> \in (1..Len(weightedIngredients)) \X (1..Len(filteredRecipes)) :
                     i \in MatchedIndexes(matches, j)}
    IN [e \in {<<IngredientVertex(weightedIngredients[p[1]].id),
                 RecipeVertex(filteredRecipes[p[2]].id)>> : p \in pairs} |->
           LET p == CHOOSE q \in pairs :
                        /\ IngredientVertex(weightedIngredients[q[1]].id) = e[1]
                        /\ RecipeVertex(filteredRecipes[q[2]].id) = e[2]
               best == matches[p[2]][p[1]]
           IN NewEdge(normalizeQuantity(weightedIngredients[p[1]].quantity,
                                        weightedIngredients[p[1]].unit),
                      best.quality, best.ingredient, 0)]

SinkEdges(filteredRecipes, matches) ==
    [e \in {<<RecipeVertex(filteredRecipes[j].id), SinkVertex>> :
                j \in 1..Len(filteredRecipes)} |->
        LET j == CHOOSE k \in 1..Len(filteredRecipes) :
                     RecipeVertex(filteredRecipes[k].id) = e[1]
            total == IF Len(filteredRecipes[j].ingredients) = 0 THEN 1
                     ELSE Len(filteredRecipes[j].ingredients)
            matched == Cardinality(MatchedIndexes(matches, j))
            coverageRatio == Min(1000, (matched * Scale) \div total)
        IN NewEdge(coverageRatio * 100, 0, Undefined, 0)]

NutritionEdges(filteredRecipes, nutrition) ==
    LET pairs == {<<c, j>> \in (1..Len(NutritionCategories)) \X (1..Len(filteredRecipes)) :
                     nutrition[j][c] > 0}
    IN [e \in {<<NutritionVertex(NutritionCategories[p[1]]),
                 RecipeVertex(filteredRecipes[p[2]].id)>> : p \in pairs} |->
           LET p == CHOOSE q \in pairs :
                        /\ NutritionVertex(NutritionCategories[q[1]]) = e[1]
                        /\ RecipeVertex(filteredRecipes[q[2]].id) = e[2]
               matchCount == nutrition[p[2]][p[1]]
           IN NewEdge(matchCount * Scale, 0, Undefined,
                      Min(1500, 800 + matchCount * 200))]

BalancedEdges(filteredRecipes, nutrition) ==
    LET present(j) == Cardinality({c \in 1..Len(NutritionCategories) : nutrition[j][c] > 0})
    IN [e \in {<<BalancedVertex, RecipeVertex(filteredRecipes[j].id)>> :
                  j \in {k \in 1..Len(filteredRecipes) : present(k) >= 2}} |->
           LET j == CHOOSE k \in 1..Len(filteredRecipes) :
                        RecipeVertex(filteredRecipes[k].id) = e[2]
           IN NewEdge(present(j) * Scale, 0, Undefined, 0)]

\* buildFlowNetwork followed by addNutritionNodes
buildFlowNetwork(weightedIngredients, recs, preferredMealType) ==
    LET filteredRecipes == FilterByMealType(recs, preferredMealType)
        matches == MatchTable(weightedIngredients, filteredRecipes)
        nutrition == NutritionTable(filteredRecipes)
    IN [vertices |->
            <<SourceVertex, SinkVertex>>
            \o [i \in 1..Len(weightedIngredients) |->
                    IngredientVertex(weightedIngredients[i].id)]
            \o [j \in 1..Len(filteredRecipes) |-> RecipeVertex(filteredRecipes[j].id)]
            \o [c \in 1..Len(NutritionCategories) |-> NutritionVertex(NutritionCategories[c])]
            \o <<BalancedVertex>>,
        edges |-> SourceEdges(weightedIngredients)
                  @@ MatchEdges(weightedIngredients, filteredRecipes, matches)
                  @@ SinkEdges(filteredRecipes, matches)
                  @@ NutritionEdges(filteredRecipes, nutrition)
                  @@ BalancedEdges(filteredRecipes, nutrition),
        filteredRecipes |-> filteredRecipes,
        preferredMealType |-> preferredMealType]

-----------------------------------------------------------------------------
(* maxFlow.ts: edmondsKarp and bfs *)

maxPaths == 100

\* `null`: bfs found no path
NoPath == <<>>

\* a copy of the edges without reverse edges
ForwardEdges(edges) == edges

\* a residual network whose reverse edges have the capacity of their edge
ResidualEdgesOpen(edges) ==
    LET missing == {<<e[2], e[1]>> : e \in DOMAIN edges} \ DOMAIN edges
    IN edges @@ [e \in missing |-> NewEdge(edges[<<e[2], e[1]>>].capacity, 0, Undefined, 0)]

\* the residual network: a copy of the edges plus a reverse edge (capacity 0,
\* flow 0) for every edge whose reverse is absent
ResidualEdges(edges) ==
    LET missing == {<<e[2], e[1]>> : e \in DOMAIN edges} \ DOMAIN edges
    IN edges @@ [e \in missing |-> NewEdge(0, 0, Undefined, 0)]

\* the for loop of bfs over `vertices` for the vertex `current`: every vertex
\* not yet visited that `current` reaches through an edge with capacity > flow
\* is marked visited, given its parent and queued, in the order of `vertices`
\* (which holds no vertex twice)
BfsExpand(vertices, edges, current, st) ==
    LET reached == SelectSeq(vertices, LAMBDA vertex :
                       /\ vertex \notin st.visited
                       /\ <<current, vertex>> \in DOMAIN edges
                       /\ edges[<<current, vertex>>].capacity > edges[<<current, vertex>>].flow)
    IN [st EXCEPT !.queue = st.queue \o reached,
                  !.visited = st.visited \cup Range(reached),
                  !.parent = [vertex \in Range(reached) |-> current] @@ st.parent]

\* the path from source to node, through parent
RECURSIVE PathTo(_, _, _)
PathTo(parent, source, node) ==
    IF node = source THEN <<source>>
    ELSE Append(PathTo(parent, source, parent[node]), node)

\* one iteration of the while loop of bfs: shift the queue, return the path when
\* the vertex is the sink, scan `vertices` otherwise.  `dequeued` lists the
\* vertices taken from the queue so far; `done` is set when the loop is left
\* (by the return, `path` set, or with the queue empty, `path` NoPath for null)
BfsStep(vertices, edges, source, sink, st) ==
    IF st.done THEN st
    ELSE IF st.queue = <<>> THEN [st EXCEPT !.done = TRUE]
    ELSE LET current == Head(st.queue)
             taken == [st EXCEPT !.queue = Tail(st.queue),
                                 !.dequeued = Append(st.dequeued, current)]
         IN IF current = sink
            THEN [taken EXCEPT !.path = PathTo(st.parent, source, sink), !.done = TRUE]
            ELSE BfsExpand(vertices, edges, current, taken)

\* `steps` iterations of the while loop of bfs, split in two halves; the second
\* half has nothing to do when the loop was left in the first
RECURSIVE BfsLoop(_, _, _, _, _, _)
BfsLoop(vertices, edges, source, sink, st, steps) ==
    IF steps = 0 THEN st
    ELSE IF steps = 1 THEN BfsStep(vertices, edges, source, sink, st)
    ELSE LET half == BfsLoop(vertices, edges, source, sink, st, steps \div 2)
         IN IF half.done THEN half
            ELSE BfsLoop(vertices, edges, source, sink, half, steps - steps \div 2)

\* the search from `source`: queue = [source], visited = {source}.  A loop that
\* takes every vertex from the queue at most once is left within
\* Len(vertices) + 1 iterations; one that is not left by then has taken some
\* vertex twice, which `dequeued` shows.
BfsRun(vertices, edges, source, sink) ==
    BfsLoop(vertices, edges, source, sink,
            [queue |-> <<source>>, visited |-> {source}, parent |-> <<>>,
             dequeued |-> <<>>, path |-> NoPath, done |-> FALSE],
            Len(vertices) + 1)

\* the vertices one search takes from its queue, in order
BfsVisits(vertices, edges, source, sink) == BfsRun(vertices, edges, source, sink).dequeued

bfs(vertices, edges, source, sink) == BfsRun(vertices, edges, source, sink).path

\* the edges of a path, in order
PathEdges(p) == [i \in 1..(Len(p) - 1) |-> <<p[i], p[i + 1]>>]

\* a bottleneck of nothing
NoCapacity(edges, p) == 0

\* the minimum of capacity - flow along the path
MinCapacity(edges, p) ==
    LET residuals == {edges[e].capacity - edges[e].flow : e \in Range(PathEdges(p))}
    IN CHOOSE m \in residuals : \A r \in residuals : m <= r

\* "Update flow values": + minCapacity on the edges of the path, - on their reverses
PushFlow(edges, p, minCapacity) ==
    LET forward == Range(PathEdges(p))
        backward == {<<e[2], e[1]>> : e \in forward}
    IN [e \in DOMAIN edges |->
           [edges[e] EXCEPT !.flow = @ + (IF e \in forward THEN minCapacity ELSE 0)
                                       - (IF e \in backward THEN minCapacity ELSE 0)]]

\* the locals of edmondsKarp before the first search; `failed` records that a
\* search ended in the catch block of bfs
InitSolver(g) ==
    [residualEdges |-> ResidualEdges(g.edges), flow |-> 0, flowPaths |-> <<>>,
     ran |-> TRUE, failed |-> FALSE]

IdleSolver == [residualEdges |-> <<>>, flow |-> 0, flowPaths |-> <<>>,
               ran |-> FALSE, failed |-> FALSE]

\* "Update original graph with flow values"
WriteBackFlows(edges, residualEdges) ==
    [e \in DOMAIN edges |-> [edges[e] EXCEPT !.flow = residualEdges[e].flow]]

-----------------------------------------------------------------------------
(* maxFlow.ts: calculateRecipeScore *)

\* Math.pow(x, num/den) for a milli number x in [0, 1], computed with four
\* decimals: the largest r with r^den <= x, raised to num
HiScale == 10 * Scale

RECURSIVE HiPow(_, _)
HiPow(r, k) == IF k = 0 THEN HiScale ELSE (r * HiPow(r, k - 1)) \div HiScale

RECURSIVE HiRootSearch(_, _, _, _)
HiRootSearch(x, den, lo, hi) ==
    IF lo >= hi THEN lo
    ELSE LET mid == (lo + hi + 1) \div 2
         IN IF HiPow(mid, den) <= x THEN HiRootSearch(x, den, mid, hi)
            ELSE HiRootSearch(x, den, lo, mid - 1)

UnitPow(x, num, den) == HiPow(HiRootSearch(x * 10, den, 0, HiScale), num) \div 10

\* value || fallback for a number
OrElse(value, fallback) == IF value = 0 \/ IsNaN(value) THEN fallback ELSE value

\* every recipe ingredient reported as missed
MissedAll(recipe, matches) == recipe.ingredients

\* the recipe ingredients not in the set of lower-cased matched strings
MissedAgainst(recipe, matches) ==
    SelectSeq(recipe.ingredients, LAMBDA recipeIng : ToLowerCase(recipeIng) \notin matches)

\* the exponent of the missing-ingredients penalty, min(2, 1 + missed/total), as a fraction
MissingExponent(missed, total) ==
    IF missed >= Max(1, total) THEN [num |-> 2, den |-> 1]
    ELSE [num |-> Max(1, total) + missed, den |-> Max(1, total)]

\* the branch of calculateRecipeScore for a recipe that uses no ingredient
MinimalScore(recipe, mealTypeBoost) ==
    Min(25000, Mul(IF recipe.score # 0 /\ ~IsNaN(recipe.score)
                   THEN Mul(recipe.score, 1500) ELSE 15000,
                   mealTypeBoost))

\* the cap of a non-perfect match applied to every recipe
MaxPossibleScoreUnconditional(isPerfectMatch, expiryBasedMaxScore, coverageRatio, missedCount) ==
    Min(expiryBasedMaxScore - 8, 60 + Round(coverageRatio * 32) - missedCount * 3)

\* the cap of the score (an integer): the expiry-based maximum for a perfect
\* match, a cap 8 lower and bounded by the coverage otherwise
MaxPossibleScore(isPerfectMatch, expiryBasedMaxScore, coverageRatio, missedCount) ==
    IF isPerfectMatch THEN Min(100, expiryBasedMaxScore)
    ELSE Min(expiryBasedMaxScore - 8, 60 + Round(coverageRatio * 32) - missedCount * 3)

\* calculateRecipeScore with its locals; draw is the value of Math.random().
\* nutritionBoosts: the sequence of boosts of the categories of the recipe.
ScoreDetails(recipe, used, mealTypeBoost, nutritionBoosts, draw) ==
    LET totalRecipeIngredients == Len(recipe.ingredients)
        usedCount == Len(used)
        expiring == SelectSeq(used, LAMBDA ing : ing.daysUntilExpiry <= 7)
        expiringCount == Len(expiring)
        matchQualitySum == SumSeq([i \in 1..usedCount |-> used[i].matchQuality])
        usedIngredientMatches ==
            {IF used[i].matchedWith = Undefined THEN <<>>
             ELSE ToLowerCase(used[i].matchedWith) : i \in 1..usedCount}
        missedCount == Len(MissedAgainst(recipe, usedIngredientMatches))
        isPerfectMatch == missedCount = 0 /\ usedCount >= totalRecipeIngredients
        coverageRatio == (usedCount * Scale) \div Max(1, totalRecipeIngredients)
        expiryBasedMaxScore == 70 + Min(30, expiringCount * 10)
        maxPossibleScore ==
            MaxPossibleScore(isPerfectMatch, expiryBasedMaxScore, coverageRatio, missedCount)
        \* the quotients below are computed with the multiplication first, so
        \* that a term that is a multiple of 0.001 is exact
        qualityScore == IF usedCount = 0 THEN 0 ELSE (10 * matchQualitySum) \div usedCount
        expiryBonus ==
            Min(expiringCount * 7500,
                (expiringCount * 15000) \div Max(1, totalRecipeIngredients))
            + (expiringCount * 20 * Scale) \div Max(1, usedCount)
        coverageBonus == 20 * Pow(coverageRatio, 5, 4)
        mealTypeBonus == 15 * (mealTypeBoost - 1000)
        nutritionBonus ==
            SumSeq([i \in 1..Len(nutritionBoosts) |-> OrElse(nutritionBoosts[i], 1000) * 4])
        missingExponent == MissingExponent(missedCount, totalRecipeIngredients)
        missingPenalty == Pow(missedCount * 3500, missingExponent.num, missingExponent.den)
        baseScore ==
            Min(15000, (15000 * usedCount) \div 3)
            + qualityScore
            + Min(8000, (12000 * usedCount) \div Max(1, totalRecipeIngredients))
            + expiryBonus + coverageBonus + mealTypeBonus + nutritionBonus
        perfectMatchBonus == IF isPerfectMatch THEN 12000 ELSE 0
        fewIngredientsPenalty == IF usedCount < 3 THEN (3 - usedCount) * 15000 ELSE 0
        manyExpiringBonus == IF expiringCount >= 3 THEN 15000 ELSE 0
        adjusted == baseScore - missingPenalty + perfectMatchBonus
                    - fewIngredientsPenalty + manyExpiringBonus
        randomFactor == draw * 2 - 1000
        expiringQuantity ==
            SumSeq([i \in 1..expiringCount |-> OrElse(expiring[i].quantity, 1000)])
        itemsFloor == IF totalRecipeIngredients = 0 THEN expiringCount * 8500
                      ELSE Min(expiringCount * 8500,
                               (expiringCount * 25000) \div totalRecipeIngredients)
        criticalItemsFloor ==
            IF expiringQuantity < 0 THEN NaN
            ELSE Min(IF isPerfectMatch THEN 75000 ELSE 70000 - missedCount * 2000,
                     itemsFloor + Mul(Sqrt(expiringQuantity), 2500))
        floored == IF IsNaN(criticalItemsFloor) THEN NaN
                   ELSE Max(criticalItemsFloor, adjusted) + randomFactor
        multiplied == IF IsNaN(floored) THEN NaN
                      ELSE IF mealTypeBoost > 2000 THEN Mul(floored, 1100) ELSE floored
        finalScore == IF IsNaN(multiplied) THEN NaN ELSE multiplied + expiringCount * 3000
    IN [score |-> IF usedCount = 0 THEN MinimalScore(recipe, mealTypeBoost)
                  ELSE IF IsNaN(finalScore) THEN NaN
                  ELSE Min(maxPossibleScore, Max(0, Round(finalScore))) * Scale,
        isPerfectMatch |-> usedCount > 0 /\ isPerfectMatch,
        perfectMatchBonus |-> IF usedCount = 0 THEN 0 ELSE perfectMatchBonus,
        expiryBasedMaxScore |-> expiryBasedMaxScore,
        maxPossibleScore |-> maxPossibleScore,
        expiringCount |-> expiringCount,
        missedCount |-> missedCount]

\* the number calculateRecipeScore returns (milli)
calculateRecipeScore(recipe, used, mealTypeBoost, nutritionBoosts, draw) ==
    ScoreDetails(recipe, used, mealTypeBoost, nutritionBoosts, draw).score

-----------------------------------------------------------------------------
(* maxFlow.ts: findOptimalRecipeWithAlternatives *)

\* edmondsKarp run to its end: the residual edges after the last augmentation
RECURSIVE AugmentAll(_, _)
AugmentAll(vertices, sv) ==
    LET p == IF Len(sv.flowPaths) < maxPaths
             THEN bfs(vertices, sv.residualEdges, SourceVertex, SinkVertex)
             ELSE NoPath
    IN IF p = NoPath THEN sv
       ELSE LET minCapacity == MinCapacity(sv.residualEdges, p)
            IN AugmentAll(vertices,
                   [sv EXCEPT !.residualEdges = PushFlow(@, p, minCapacity),
                              !.flow = @ + minCapacity,
                              !.flowPaths = Append(@, p)])

\* the graph after edmondsKarp(graph, 's', 't')
edmondsKarp(g) ==
    [g EXCEPT !.edges = WriteBackFlows(@, AugmentAll(g.vertices, InitSolver(g)).residualEdges)]

\* graph.filteredRecipes || recipes
FilteredRecipesOf(g, recs) ==
    IF g.filteredRecipes = UndefinedRecipes THEN recs ELSE g.filteredRecipes

\* graph.preferredMealType || 'any'
PreferredMealTypeOf(g) ==
    IF g.preferredMealType = UndefinedString THEN "any" ELSE g.preferredMealType

\* the indexes of weightedIngredients whose edge to the recipe carries flow
UsedIndexesByFlow(g, weightedIngredients, recipe) ==
    {i \in 1..Len(weightedIngredients) :
        LET edgeId == <<IngredientVertex(weightedIngredients[i].id), RecipeVertex(recipe.id)>>
        IN edgeId \in DOMAIN g.edges /\ g.edges[edgeId].flow > 0}

\* the indexes of weightedIngredients that count as used by the recipe: the edge
\* exists and carries positive flow or has match quality >= 0.7
UsedIndexes(g, weightedIngredients, recipe) ==
    {i \in 1..Len(weightedIngredients) :
        LET edgeId == <<IngredientVertex(weightedIngredients[i].id), RecipeVertex(recipe.id)>>
        IN /\ edgeId \in DOMAIN g.edges
           /\ (g.edges[edgeId].flow > 0 \/ g.edges[edgeId].matchQuality >= 700)
           /\ ~\E k \in 1..(i - 1) : weightedIngredients[k].id = weightedIngredients[i].id}

\* usedIngredientsWithExpiry of the recipe, in the order of weightedIngredients
UsedIngredientsWithExpiry(g, weightedIngredients, recipe) ==
    LET idx == UsedIndexes(g, weightedIngredients, recipe)
        picked == SelectSeq([i \in 1..Len(weightedIngredients) |-> i], LAMBDA i : i \in idx)
    IN [n \in 1..Len(picked) |->
           LET ingredient == weightedIngredients[picked[n]]
               edge == g.edges[<<IngredientVertex(ingredient.id), RecipeVertex(recipe.id)>>]
           IN [id |-> ingredient.id,
               name |-> ingredient.name,
               daysUntilExpiry |-> ingredient.daysUntilExpiry,
               matchQuality |-> OrElse(edge.matchQuality, 700),
               matchedWith |-> IF edge.matchedWith = <<>> THEN Undefined
                               ELSE edge.matchedWith,
               quantity |-> ingredient.quantity]]

\* the nutritionBoosts of the categories that have an edge to the recipe
NutritionBoostsOf(g, recipe) ==
    LET present == SelectSeq(NutritionCategories, LAMBDA c :
                       <<NutritionVertex(c), RecipeVertex(recipe.id)>> \in DOMAIN g.edges)
    IN [n \in 1..Len(present) |->
           OrElse(g.edges[<<NutritionVertex(present[n]), RecipeVertex(recipe.id)>>]
                      .nutritionBoost, 1000)]

\* Math.round of a milli score, NaN kept
RoundScore(x) == IF IsNaN(x) THEN NaN ELSE Round(x)

\* one element of recipeScores.  isPerfectMatch is not a field of the program's
\* result: it records the branch calculateRecipeScore took for this recipe.
ScoreRecipe(g, weightedIngredients, recipe, preferredMealType, draw) ==
    LET used == UsedIngredientsWithExpiry(g, weightedIngredients, recipe)
        details == ScoreDetails(recipe, used, MealTypeBoost(recipe, preferredMealType),
                                NutritionBoostsOf(g, recipe), draw)
        usedIngredientMatches ==
            {ToLowerCase(used[i].matchedWith) :
                i \in {k \in 1..Len(used) : used[k].matchedWith # Undefined}}
        uniqueUsedIngredients ==
            Dedupe([i \in 1..Len(used) |->
                       IF used[i].matchedWith = Undefined THEN used[i].name
                       ELSE used[i].matchedWith])
    IN [id |-> recipe.id,
        score |-> RoundScore(details.score),
        mealType |-> recipe.mealType,
        usedIngredients |-> uniqueUsedIngredients,
        missedIngredients |-> MissedAgainst(recipe, usedIngredientMatches),
        matchCount |-> Len(uniqueUsedIngredients),
        totalIngredients |-> Len(recipe.ingredients),
        expiringIngredients |->
            Len(SelectSeq(used, LAMBDA ing : ing.daysUntilExpiry <= 7)),
        isPerfectMatch |-> details.isPerfectMatch]

\* recipeScores; draws[j] is the Math.random() of calculateRecipeScore for recipe j
RecipeScores(g, weightedIngredients, recs, draws) ==
    LET filteredRecipes == FilteredRecipesOf(g, recs)
    IN [j \in 1..Len(filteredRecipes) |->
           ScoreRecipe(g, weightedIngredients, filteredRecipes[j],
                       PreferredMealTypeOf(g), draws[j])]

\* "Fallback if no recipes found"
NoMatchFallback(g, recs, count, draws) ==
    LET filteredRecipes == FilteredRecipesOf(g, recs)
        all == [j \in 1..Len(filteredRecipes) |->
                   LET recipe == filteredRecipes[j]
                       mealTypeBoost == IF recipe.mealType = PreferredMealTypeOf(g)
                                        THEN 2500 ELSE 1200
                   IN [id |-> recipe.id,
                       score |-> Round(Min(100000, Mul(draws[j] * 30 + 15000, mealTypeBoost))),
                       mealType |-> recipe.mealType,
                       usedIngredients |-> <<>>,
                       missedIngredients |-> recipe.ingredients,
                       matchCount |-> 0,
                       totalIngredients |-> Len(recipe.ingredients),
                       expiringIngredients |-> 0,
                       isPerfectMatch |-> FALSE]]
    IN Slice(all, count)

HasNaN(list) == \E i \in 1..Len(list) : IsNaN(list[i].score)

\* insert r into the list sorted by descending score, after the elements that
\* do not score less (the sort is stable)
RECURSIVE InsertByScore(_, _)
InsertByScore(sorted, r) ==
    IF sorted = <<>> THEN <<r>>
    ELSE IF Head(sorted).score >= r.score
         THEN <<Head(sorted)>> \o InsertByScore(Tail(sorted), r)
         ELSE <<r>> \o sorted

RECURSIVE StableSortDesc(_)
StableSortDesc(list) ==
    IF list = <<>> THEN <<>>
    ELSE InsertByScore(StableSortDesc(SubSeq(list, 1, Len(list) - 1)), list[Len(list)])

Reorderings(list) ==
    {[i \in 1..Len(list) |-> list[f[i]]] :
        f \in {g \in [1..Len(list) -> 1..Len(list)] : \A i, j \in 1..Len(list) :
                                                          g[i] = g[j] => i = j}}

\* list.sort((a, b) => b.score - a.score).  With a NaN score the comparator is
\* not a consistent comparison and the order is implementation-defined: any
\* permutation may result.
SortOutcomes(list) ==
    IF HasNaN(list) THEN Reorderings(list) ELSE {StableSortDesc(list)}

\* Math.min(...scores) and Math.max(...scores): NaN if any score is NaN
MinScore(list) ==
    IF HasNaN(list) THEN NaN
    ELSE CHOOSE m \in {list[i].score : i \in 1..Len(list)} :
             \A i \in 1..Len(list) : m <= list[i].score

MaxScore(list) ==
    IF HasNaN(list) THEN NaN
    ELSE CHOOSE m \in {list[i].score : i \in 1..Len(list)} :
             \A i \in 1..Len(list) : m >= list[i].score

\* the curve of normalizeScores for one score (integers; min < max)
StretchedScore(score, minScore, maxScore) ==
    LET normalizedScore == ((score - minScore) * Scale) \div (maxScore - minScore)
        enhancedNormalizedScore == UnitPow(normalizedScore, 7, 10)
        newScore == Round(minScore * Scale + enhancedNormalizedScore * (maxScore - minScore))
    IN Min(100, newScore)

\* the random variance of normalizeScores for one score (all scores equal)
VariedScore(score, draw) ==
    Min(100, Max(1, Round(Mul(score * Scale, 850 + Mul(draw, 300)))))

\* normalizeScores; draws[i] is the Math.random() of the variance of recipe i.
\* Math.min() of no score is Infinity and Math.max() is -Infinity: unequal.
normalizeScores(list, draws) ==
    IF list = <<>> THEN <<>>
    ELSE IF HasNaN(list) THEN [i \in 1..Len(list) |-> [list[i] EXCEPT !.score = NaN]]
    ELSE IF MinScore(list) = MaxScore(list)
         THEN [i \in 1..Len(list) |-> [list[i] EXCEPT !.score = VariedScore(@, draws[i])]]
         ELSE [i \in 1..Len(list) |->
                  [list[i] EXCEPT !.score = StretchedScore(@, MinScore(list), MaxScore(list))]]

\* the catch block: "Return fallback recipes on error"
ErrorFallback(g, recs, count) ==
    LET mealTypeFilter == PreferredMealTypeOf(g)
        picked == Slice(FilterByMealType(recs, mealTypeFilter), count)
    IN [j \in 1..Len(picked) |->
           LET recipe == picked[j]
           IN [id |-> recipe.id,
               score |-> Round(Min(100000,
                            Mul(OrElse(OrElse(recipe.score, 0) * 10, 25000),
                                IF recipe.mealType = mealTypeFilter THEN 1500 ELSE 1000))),
               mealType |-> recipe.mealType,
               usedIngredients |-> <<>>,
               missedIngredients |-> IF recipe.ingredients = UndefinedList THEN <<>>
                                     ELSE recipe.ingredients,
               matchCount |-> 0,
               totalIngredients |-> IF recipe.ingredients = UndefinedList THEN 0
                                    ELSE Len(recipe.ingredients),
               expiringIngredients |-> 0,
               isPerfectMatch |-> FALSE]]

\* recipe.ingredients.length in the catch block raises a TypeError for a recipe
\* without ingredients among the first `count` filtered recipes
ErrorFallbackThrows(g, recs, count) ==
    \E r \in Range(Slice(FilterByMealType(recs, PreferredMealTypeOf(g)), count)) :
        r.ingredients = UndefinedList

\* an exception inside the try block: recipe.ingredients.length in
\* calculateRecipeScore on a recipe without ingredients
ScoringThrows(g, weightedIngredients, recs) ==
    LET filteredRecipes == FilteredRecipesOf(g, recs)
    IN \E j \in 1..Len(filteredRecipes) : filteredRecipes[j].ingredients = UndefinedList

-----------------------------------------------------------------------------
(* RecipeRecommendationService.getRecommendedRecipes: post-processing *)

\* the number of usedIngredients whose first inventory document of that very
\* name is flagged aboutToExpire
ExpiringUsed(recipe, ings) ==
    Cardinality({k \in 1..Len(recipe.usedIngredients) :
        \E i \in 1..Len(ings) :
            /\ ings[i].name = recipe.usedIngredients[k]
            /\ \A h \in 1..(i - 1) : ings[h].name # recipe.usedIngredients[k]
            /\ ings[i].aboutToExpire})

\* recipesWithMetadata
WithMetadata(list, ings) ==
    [i \in 1..Len(list) |->
        [list[i] EXCEPT
            !.matchCount = Len(list[i].usedIngredients),
            !.totalIngredients = Len(list[i].usedIngredients) + Len(list[i].missedIngredients),
            !.expiringIngredients = ExpiringUsed(list[i], ings)]]

\* Math.min(100, Math.max(1, Math.round(score - missingPenalty + expiryBonus)));
\* missingRatio is 0/0 = NaN for a recipe with no used and no missed ingredient
AdjustedScore(recipe) ==
    LET totalIngredients == Len(recipe.usedIngredients) + Len(recipe.missedIngredients)
    IN IF IsNaN(recipe.score) \/ totalIngredients = 0 THEN NaN
       ELSE LET missingPenalty == (Len(recipe.missedIngredients) * 15 * Scale)
                                      \div totalIngredients
                expiryBonus == recipe.expiringIngredients * 5 * Scale
            IN Min(100, Max(1, Round(recipe.score * Scale - missingPenalty + expiryBonus)))

\* normalizedRecipes, before the final sort
NormalizedRecipes(list, ings) ==
    LET recipesWithMetadata == WithMetadata(list, ings)
    IN [i \in 1..Len(list) |->
           [recipesWithMetadata[i] EXCEPT !.score = AdjustedScore(recipesWithMetadata[i])]]

-----------------------------------------------------------------------------
(* The request: one call of getRecommendedRecipes *)

NoGraph == [vertices |-> <<>>, edges |-> <<>>, filteredRecipes |-> <<>>,
            preferredMealType |-> UndefinedString]

NoRequest == [mealType |-> "any", count |-> 0, options |-> CHOOSE o \in RequestOptions : TRUE]

NoCall == [op |-> "none"]

\* the locals of a request that has not started
Idle ==
    /\ pc = "idle"
    /\ request = NoRequest
    /\ ingredients = <<>>
    /\ recipes = <<>>
    /\ weighted = <<>>
    /\ algoRecipes = <<>>
    /\ graph = NoGraph
    /\ solver = IdleSolver
    /\ scored = <<>>
    /\ recommended = <<>>
    /\ result = <<>>
    /\ outcome = "pending"
    /\ errorSource = "none"
    /\ path = "none"

\* the database holds any inventory of the user and any recipe collection
Init ==
    /\ dbInventory \in SubSeqsOf(InventoryCatalog, MaxInventory)
    /\ dbRecipes \in SubSeqsOf(RecipeCatalog, MaxRecipes)
    /\ Idle
    /\ call = NoCall

\* the controller calls getRecommendedRecipes(userId, options, count); the
\* function runs to `await Ingredient.find({ userId })`
Start ==
    /\ pc = "idle"
    /\ \E mealType \in MealTypes, count \in 0..MaxCount, options \in RequestOptions :
           request' = [mealType |-> mealType, count |-> count, options |-> options]
    /\ pc' = "awaitInventory"
    /\ UNCHANGED <<dbInventory, dbRecipes, ingredients, recipes, weighted, algoRecipes,
                   graph, solver, scored, recommended, result, outcome, errorSource,
                   path, call>>

\* the return statement or the rethrow of getRecommendedRecipes
Return(list) ==
    /\ result' = list
    /\ outcome' = "returned"
    /\ errorSource' = "none"
    /\ pc' = "done"

Throw(source) ==
    /\ result' = <<>>
    /\ outcome' = "threw"
    /\ errorSource' = source
    /\ pc' = "done"

\* Ingredient.find resolves and the function goes on whatever the inventory
InventoryArrivesUnchecked ==
    /\ pc = "awaitInventory"
    /\ ingredients' = dbInventory
    /\ pc' = "awaitRecipes"
    /\ UNCHANGED <<request, dbInventory, dbRecipes, recipes, weighted, algoRecipes,
                   graph, solver, scored, recommended, result, outcome, errorSource,
                   path, call>>

\* Ingredient.find resolves; an empty inventory returns [] at once, otherwise the
\* function runs to `await recipesQuery.limit(1000)`
InventoryArrives ==
    /\ pc = "awaitInventory"
    /\ ingredients' = dbInventory
    /\ IF dbInventory = <<>>
       THEN Return(<<>>)
       ELSE /\ pc' = "awaitRecipes"
            /\ UNCHANGED <<result, outcome, errorSource>>
    /\ UNCHANGED <<request, dbInventory, dbRecipes, recipes, weighted, algoRecipes,
                   graph, solver, scored, recommended, path, call>>

\* Ingredient.find rejects: the catch block rethrows
InventoryFails ==
    /\ pc = "awaitInventory"
    /\ Throw("db")
    /\ UNCHANGED <<request, dbInventory, dbRecipes, ingredients, recipes, weighted,
                   algoRecipes, graph, solver, scored, recommended, path, call>>

\* the recipe query resolves with the recipes of the requested meal type (or
\* 'any'); no recipe returns [] at once
RecipesArrive ==
    /\ pc = "awaitRecipes"
    /\ recipes' = FilterByMealType(dbRecipes, request.mealType)
    /\ IF recipes' = <<>>
       THEN Return(<<>>)
       ELSE /\ pc' = "convert"
            /\ UNCHANGED <<result, outcome, errorSource>>
    /\ UNCHANGED <<request, dbInventory, dbRecipes, ingredients, weighted, algoRecipes,
                   graph, solver, scored, recommended, path, call>>

\* the recipe query rejects: the catch block rethrows
RecipesFail ==
    /\ pc = "awaitRecipes"
    /\ Throw("db")
    /\ UNCHANGED <<request, dbInventory, dbRecipes, ingredients, recipes, weighted,
                   algoRecipes, graph, solver, scored, recommended, path, call>>

\* convertToWeightedIngredients and convertDbRecipesToAlgoFormat; each recipe
\* draws its baseScore
Convert ==
    /\ pc = "convert"
    /\ IF convertToWeightedIngredientsThrows(ingredients, request.options)
       THEN /\ Throw("computation")
            /\ UNCHANGED <<weighted, algoRecipes>>
       ELSE /\ weighted' = convertToWeightedIngredients(ingredients, request.options)
            /\ \E draws \in [1..Len(recipes) -> ExtremeDraws] :
                   algoRecipes' = convertDbRecipesToAlgoFormat(recipes, request.mealType, draws)
            /\ pc' = "build"
            /\ UNCHANGED <<result, outcome, errorSource>>
    /\ UNCHANGED <<request, dbInventory, dbRecipes, ingredients, recipes, graph, solver,
                   scored, recommended, path, call>>

\* buildFlowNetwork, then the call of findOptimalRecipeWithAlternatives up to
\* the first search of edmondsKarp.  An exception of buildFlowNetwork is outside
\* the try block of findOptimalRecipeWithAlternatives: getRecommendedRecipes
\* rethrows it.
BuildNetwork ==
    /\ pc = "build"
    /\ IF buildFlowNetworkThrows(weighted, algoRecipes, request.mealType)
       THEN /\ Throw("computation")
            /\ UNCHANGED <<graph, solver>>
       ELSE /\ graph' = buildFlowNetwork(weighted, algoRecipes, request.mealType)
            /\ solver' = InitSolver(graph')
            /\ pc' = "solve"
            /\ UNCHANGED <<result, outcome, errorSource>>
    /\ UNCHANGED <<request, dbInventory, dbRecipes, ingredients, recipes, weighted,
                   algoRecipes, scored, recommended, path, call>>

\* the path the while loop of edmondsKarp would take next, NoPath to leave it
NextPath ==
    IF Len(solver.flowPaths) < maxPaths
    THEN bfs(graph.vertices, solver.residualEdges, SourceVertex, SinkVertex)
    ELSE NoPath

\* one iteration of the while loop of edmondsKarp
Augment ==
    /\ pc = "solve"
    /\ LET found == NextPath
           minCapacity == MinCapacity(solver.residualEdges, found)
       IN /\ found # NoPath
          /\ solver' = [solver EXCEPT !.residualEdges = PushFlow(@, found, minCapacity),
                                      !.flow = @ + minCapacity,
                                      !.flowPaths = Append(@, found)]
    /\ UNCHANGED <<pc, request, dbInventory, dbRecipes, ingredients, recipes, weighted,
                   algoRecipes, graph, scored, recommended, result, outcome,
                   errorSource, path, call>>

\* the while loop ends; the flows are written back to the graph
SolveDone ==
    /\ pc = "solve"
    /\ NextPath = NoPath
    /\ graph' = [graph EXCEPT !.edges = WriteBackFlows(@, solver.residualEdges)]
    /\ pc' = "score"
    /\ UNCHANGED <<request, dbInventory, dbRecipes, ingredients, recipes, weighted,
                   algoRecipes, solver, scored, recommended, result, outcome,
                   errorSource, path, call>>

\* the draws of a list of n elements, a single vector when they are not used
DrawsFor(n, used, from) ==
    IF used THEN [1..n -> from] ELSE {[i \in 1..n |-> 0]}

\* recipeScores: every filtered recipe is scored, each with its own random
\* factor.  An exception ends the try block: the catch block returns the error
\* fallback to getRecommendedRecipes, unless it raises an exception itself.
ScoreRecipes ==
    /\ pc = "score"
    /\ IF ScoringThrows(graph, weighted, algoRecipes)
       THEN /\ scored' = <<>>
            /\ path' = "error"
            /\ IF ErrorFallbackThrows(graph, algoRecipes, request.count)
               THEN /\ Throw("computation")
                    /\ UNCHANGED recommended
               ELSE /\ recommended' = ErrorFallback(graph, algoRecipes, request.count)
                    /\ pc' = "finish"
                    /\ UNCHANGED <<result, outcome, errorSource>>
       ELSE /\ \E draws \in DrawsFor(Len(FilteredRecipesOf(graph, algoRecipes)), TRUE,
                                    RandomDraws) :
                   scored' = RecipeScores(graph, weighted, algoRecipes, draws)
            /\ pc' = "rank"
            /\ UNCHANGED <<recommended, result, outcome, errorSource, path>>
    /\ UNCHANGED <<request, dbInventory, dbRecipes, ingredients, recipes, weighted,
                   algoRecipes, graph, solver, call>>

\* no recipe discarded
KeepAll(list) == list

\* recipeScores.filter(recipe => recipe.usedIngredients.length > 0)
ValidRecipes(list) == SelectSeq(list, LAMBDA recipe : Len(recipe.usedIngredients) > 0)

\* the results findOptimalRecipeWithAlternatives may return from recipeScores:
\* validRecipes or the no-match fallback, sorted, normalized and cut to count
RankOutcomes(g, recs, recipeScores, count) ==
    LET valid == ValidRecipes(recipeScores)
        candidates ==
            IF valid # <<>> THEN {valid}
            ELSE {NoMatchFallback(g, recs, count, draws) :
                     draws \in DrawsFor(Len(FilteredRecipesOf(g, recs)), TRUE, RandomDraws)}
    IN UNION {UNION {{Slice(normalizeScores(sorted, draws), count) :
                         draws \in DrawsFor(Len(sorted),
                                            ~HasNaN(sorted) /\ sorted # <<>>
                                                /\ MinScore(sorted) = MaxScore(sorted),
                                            ExtremeDraws)} :
                     sorted \in SortOutcomes(c)} :
              c \in candidates}

\* the rest of the try block of findOptimalRecipeWithAlternatives
Rank ==
    /\ pc = "rank"
    /\ recommended' \in RankOutcomes(graph, algoRecipes, scored, request.count)
    /\ path' = IF ValidRecipes(scored) # <<>> THEN "normal" ELSE "nomatch"
    /\ pc' = "finish"
    /\ UNCHANGED <<request, dbInventory, dbRecipes, ingredients, recipes, weighted,
                   algoRecipes, graph, solver, scored, result, outcome, errorSource, call>>

\* metadata, score adjustment and the final sort of getRecommendedRecipes
Finish ==
    /\ pc = "finish"
    /\ \E sorted \in SortOutcomes(NormalizedRecipes(recommended, ingredients)) :
           Return(sorted)
    /\ UNCHANGED <<request, dbInventory, dbRecipes, ingredients, recipes, weighted,
                   algoRecipes, graph, solver, scored, recommended, path, call>>

Next ==
    \/ Start
    \/ InventoryArrives
    \/ InventoryFails
    \/ RecipesArrive
    \/ RecipesFail
    \/ Convert
    \/ BuildNetwork
    \/ Augment
    \/ SolveDone
    \/ ScoreRecipes
    \/ Rank
    \/ Finish

Spec == Init /\ [][Next]_vars

-----------------------------------------------------------------------------
(* The solver under load.  The request of Spec, started also on an         *)
(* inventory with a negative quantity, on an inventory with more entries  *)
(* than edmondsKarp records paths, and on an inventory whose maximum flow  *)
(* needs a reverse edge; a search of bfs may end in its catch block.       *)

ManyIngredients == 101

\* the same half unit of spinach, stored ManyIngredients times
ManySpinach ==
    [k \in 1..ManyIngredients |->
        [InventoryCatalog[2] EXCEPT !.id = "b" \o ToString(k), !.quantity = Scale \div 2]]

InitSolve ==
    /\ \/ /\ dbInventory = <<InventoryCatalog[5]>>
          /\ dbRecipes = <<RecipeCatalog[3]>>
       \/ /\ dbInventory = ManySpinach
          /\ dbRecipes = <<RecipeCatalog[1]>>
       \/ /\ dbInventory = <<[InventoryCatalog[2] EXCEPT !.quantity = 100 * Scale],
                              InventoryCatalog[3]>>
          /\ dbRecipes = <<RecipeCatalog[3], RecipeCatalog[2]>>
    /\ Idle
    /\ call = NoCall

\* a search raises an exception and the flow found so far is dropped
BfsFailsResets ==
    /\ pc = "solve"
    /\ Len(solver.flowPaths) < maxPaths
    /\ solver' = [InitSolver(graph) EXCEPT !.failed = TRUE]
    /\ pc' = "score"
    /\ UNCHANGED <<request, dbInventory, dbRecipes, ingredients, recipes, weighted,
                   algoRecipes, graph, scored, recommended, result, outcome,
                   errorSource, path, call>>

\* a search raises an exception: the catch block of bfs returns null, the while
\* loop of edmondsKarp ends as if no path were left, the flows are written back
\* and { flow, flowPaths } is returned
BfsFails ==
    /\ pc = "solve"
    /\ Len(solver.flowPaths) < maxPaths
    /\ solver' = [solver EXCEPT !.failed = TRUE]
    /\ graph' = [graph EXCEPT !.edges = WriteBackFlows(@, solver.residualEdges)]
    /\ pc' = "score"
    /\ UNCHANGED <<request, dbInventory, dbRecipes, ingredients, recipes, weighted,
                   algoRecipes, scored, recommended, result, outcome,
                   errorSource, path, call>>

NextSolve ==
    \/ Start
    \/ InventoryArrives
    \/ InventoryFails
    \/ RecipesArrive
    \/ RecipesFail
    \/ Convert
    \/ BuildNetwork
    \/ Augment
    \/ SolveDone
    \/ BfsFails
    \/ ScoreRecipes
    \/ Rank
    \/ Finish

SpecSolve == InitSolve /\ [][NextSolve]_vars

-----------------------------------------------------------------------------
(* Direct calls of findOptimalRecipeWithAlternatives.  The function is      *)
(* exported; a caller may pass a graph it made itself.  A graph without     *)
(* filteredRecipes makes the function score the recipes it is given, and a  *)
(* recipe object without an ingredients array then raises an exception      *)
(* inside the try block.                                                    *)

\* a graph of source and sink only, without filteredRecipes
BareGraph(preferredMealType) ==
    [vertices |-> <<SourceVertex, SinkVertex>>, edges |-> <<>>,
     filteredRecipes |-> UndefinedRecipes, preferredMealType |-> preferredMealType]

\* the recipes with the ingredients of recipe number m (if any) absent
WithoutIngredients(recs, m) ==
    [j \in 1..Len(recs) |->
        IF j = m THEN [recs[j] EXCEPT !.ingredients = UndefinedList] ELSE recs[j]]

\* what a call of findOptimalRecipeWithAlternatives may do: the list it returns
\* (or the exception it throws) and the branch that produced it
FindOptimalOutcomes(g, weightedIngredients, recs, count) ==
    IF ScoringThrows(g, weightedIngredients, recs)
    THEN IF ErrorFallbackThrows(g, recs, count)
         THEN {[threw |-> TRUE, list |-> <<>>, path |-> "error"]}
         ELSE {[threw |-> FALSE, list |-> ErrorFallback(g, recs, count), path |-> "error"]}
    ELSE LET solved == edmondsKarp(g)
             n == Len(FilteredRecipesOf(g, recs))
         IN UNION {{[threw |-> FALSE, list |-> list,
                     path |-> IF ValidRecipes(RecipeScores(solved, weightedIngredients,
                                                           recs, draws)) # <<>>
                              THEN "normal" ELSE "nomatch"] :
                      list \in RankOutcomes(solved, recs,
                                            RecipeScores(solved, weightedIngredients,
                                                         recs, draws), count)} :
                   draws \in DrawsFor(n, TRUE, ExtremeDraws)}

\* the inventory documents that have a name
Named(ings) == SelectSeq(ings, LAMBDA ing : ing.name # Undefined)

CallFindOptimal ==
    /\ pc = "idle"
    /\ call = NoCall
    /\ \E preferredMealType \in MealTypes \cup {UndefinedString},
          count \in 0..MaxCount,
          m \in 0..Len(dbRecipes) :
           LET g == BareGraph(preferredMealType)
               weightedIngredients ==
                   convertToWeightedIngredients(Named(dbInventory),
                       [prioritizeExpiring |-> TRUE, selectedIngredients |-> UndefinedList])
               recs == WithoutIngredients(
                           convertDbRecipesToAlgoFormat(dbRecipes, "any",
                                                        [j \in 1..Len(dbRecipes) |-> 0]), m)
           IN \E out \in FindOptimalOutcomes(g, weightedIngredients, recs, count) :
                  call' = [op |-> "findOptimalRecipeWithAlternatives",
                           graph |-> g,
                           recipes |-> recs,
                           count |-> count,
                           raised |-> ScoringThrows(g, weightedIngredients, recs),
                           threw |-> out.threw,
                           list |-> out.list,
                           path |-> out.path]
    /\ UNCHANGED <<pc, request, dbInventory, dbRecipes, ingredients, recipes, weighted,
                   algoRecipes, graph, solver, scored, recommended, result, outcome,
                   errorSource, path>>

\* a request is made only where no direct call was made
StartRequest == call = NoCall /\ Start

NextFind ==
    \/ CallFindOptimal
    \/ StartRequest
    \/ InventoryArrives
    \/ InventoryFails
    \/ RecipesArrive
    \/ RecipesFail
    \/ Convert
    \/ BuildNetwork
    \/ Augment
    \/ SolveDone
    \/ ScoreRecipes
    \/ Rank
    \/ Finish

SpecFind == Init /\ [][NextFind]_vars

-----------------------------------------------------------------------------
(* Calls of calculateRecipeScore, as findOptimalRecipeWithAlternatives      *)
(* makes them: a recipe, the used ingredients with the recipe ingredient    *)
(* each one matched, the meal type boost, the nutrition boosts, one draw.   *)

\* the k-th ingredient string of a scored recipe: k times "x"
IngredientName(k) == [i \in 1..k |-> "x"]

ScoredRecipe(n) ==
    [id |-> "r", ingredients |-> [k \in 1..n |-> IngredientName(k)],
     mealType |-> "any", score |-> 60 * Scale]

\* which recipe ingredient each used ingredient matched: the first u
\* ingredients of the recipe, or those and a second match of the last one
MatchShapes(n) ==
    {[i \in 1..u |-> i] : u \in 1..n}
    \cup {[i \in 1..(u + 1) |-> IF i <= u THEN i ELSE u] : u \in 1..Min(n, MaxIngredients - 1)}

UsedLists(n) ==
    UNION {{[i \in 1..Len(shape) |->
                [daysUntilExpiry |-> days[i],
                 matchQuality |-> quality,
                 matchedWith |-> IngredientName(shape[i]),
                 quantity |-> quantity]] :
               days \in [1..Len(shape) -> {2, 30}],
               quality \in {700, 1000},
               quantity \in {1000, 0 - 2000}} :
           shape \in MatchShapes(n)}

MealTypeBoosts == {800, 1200, 2500}

NutritionBoostLists == {<<>>, <<1000>>}

\* one call
CallScore ==
    /\ call = NoCall
    /\ \E n \in 1..MaxIngredients :
         \E used \in UsedLists(n), mealTypeBoost \in MealTypeBoosts,
            nutritionBoosts \in NutritionBoostLists, draw \in RandomDraws :
             call' = [op |-> "calculateRecipeScore",
                      recipe |-> ScoredRecipe(n),
                      used |-> used,
                      mealTypeBoost |-> mealTypeBoost,
                      nutritionBoosts |-> nutritionBoosts,
                      draw |-> draw,
                      details |-> ScoreDetails(ScoredRecipe(n), used, mealTypeBoost,
                                               nutritionBoosts, draw)]
    /\ UNCHANGED <<pc, request, dbInventory, dbRecipes, ingredients, recipes, weighted,
                   algoRecipes, graph, solver, scored, recommended, result, outcome,
                   errorSource, path>>

\* two calls that differ in one used ingredient only: it expires in 30 days
\* in the first call and in 2 days in the second
CallScorePair ==
    /\ call = NoCall
    /\ \E n \in 1..MaxIngredients :
         \E used \in UsedLists(n), mealTypeBoost \in MealTypeBoosts,
            nutritionBoosts \in NutritionBoostLists, draw \in RandomDraws :
           \E k \in {i \in 1..Len(used) : used[i].daysUntilExpiry > 7} :
             LET expiring == [used EXCEPT ![k].daysUntilExpiry = 2]
             IN call' = [op |-> "calculateRecipeScore twice",
                         recipe |-> ScoredRecipe(n),
                         used |-> used,
                         mealTypeBoost |-> mealTypeBoost,
                         nutritionBoosts |-> nutritionBoosts,
                         draw |-> draw,
                         details |-> ScoreDetails(ScoredRecipe(n), used, mealTypeBoost,
                                                  nutritionBoosts, draw),
                         expiringUsed |-> expiring,
                         expiringDetails |-> ScoreDetails(ScoredRecipe(n), expiring,
                                                          mealTypeBoost, nutritionBoosts,
                                                          draw)]
    /\ UNCHANGED <<pc, request, dbInventory, dbRecipes, ingredients, recipes, weighted,
                   algoRecipes, graph, solver, scored, recommended, result, outcome,
                   errorSource, path>>

LargeRecipe == 22

\* one call for a recipe of many ingredients of which the first is used, by
\* one or two ingredients of the inventory
CallScoreLarge ==
    /\ call = NoCall
    /\ \E used \in UsedLists(1), mealTypeBoost \in MealTypeBoosts,
          nutritionBoosts \in NutritionBoostLists, draw \in RandomDraws :
           call' = [op |-> "calculateRecipeScore",
                    recipe |-> ScoredRecipe(LargeRecipe),
                    used |-> used,
                    mealTypeBoost |-> mealTypeBoost,
                    nutritionBoosts |-> nutritionBoosts,
                    draw |-> draw,
                    details |-> ScoreDetails(ScoredRecipe(LargeRecipe), used,
                                             mealTypeBoost, nutritionBoosts, draw)]
    /\ UNCHANGED <<pc, request, dbInventory, dbRecipes, ingredients, recipes, weighted,
                   algoRecipes, graph, solver, scored, recommended, result, outcome,
                   errorSource, path>>

\* Math.random() for a randomFactor of 0
NoJitter == Scale \div 2

\* two recipes scored each without and with jitter: their used ingredients
\* (matchQuality 1.0, quantity 1) differ in the matchQuality of one
\* ingredient, which is 0.7 for the recipe `lower`
CallScoreJitter ==
    /\ call = NoCall
    /\ \E n \in 1..MaxIngredients :
         \E used \in {u \in UsedLists(n) :
                         \A i \in 1..Len(u) : u[i].matchQuality = Scale /\ u[i].quantity > 0},
            mealTypeBoost \in MealTypeBoosts,
            nutritionBoosts \in NutritionBoostLists,
            draw \in ExtremeDraws, lowerDraw \in ExtremeDraws :
           \E k \in 1..Len(used) :
             LET lower == [used EXCEPT ![k].matchQuality = 700]
                 score(u, d) == calculateRecipeScore(ScoredRecipe(n), u, mealTypeBoost,
                                                     nutritionBoosts, d)
             IN call' = [op |-> "calculateRecipeScore with jitter",
                         recipe |-> ScoredRecipe(n),
                         used |-> used,
                         lowerUsed |-> lower,
                         mealTypeBoost |-> mealTypeBoost,
                         nutritionBoosts |-> nutritionBoosts,
                         draw |-> draw,
                         lowerDraw |-> lowerDraw,
                         plain |-> score(used, NoJitter),
                         lowerPlain |-> score(lower, NoJitter),
                         jittered |-> score(used, draw),
                         lowerJittered |-> score(lower, lowerDraw)]
    /\ UNCHANGED <<pc, request, dbInventory, dbRecipes, ingredients, recipes, weighted,
                   algoRecipes, graph, solver, scored, recommended, result, outcome,
                   errorSource, path>>

InitScore ==
    /\ dbInventory = <<>>
    /\ dbRecipes = <<>>
    /\ Idle
    /\ call = NoCall

NextScore ==
    \/ CallScore
    \/ CallScorePair
    \/ CallScoreLarge
    \/ CallScoreJitter

SpecScore == InitScore /\ [][NextScore]_vars

-----------------------------------------------------------------------------
(* Properties *)

\* a >= b and a > b as the program evaluates them: false when either is NaN
AtLeast(a, b) == ~IsNaN(a) /\ ~IsNaN(b) /\ a >= b
Above(a, b) == ~IsNaN(a) /\ ~IsNaN(b) /\ a > b

Returned == pc = "done" /\ outcome = "returned"

Spinach == <<"S", "p", "i", "n", "a", "c", "h">>

\* C1: every result getRecommendedRecipes returns has an integer score with
\* 0 <= score <= 100, for any inventory, any recipes and any draws.
C1_ScoreInRange ==
    Returned => \A i \in 1..Len(result) : result[i].score \in 0..100

\* C2: for every count >= 0 the list getRecommendedRecipes returns, and the
\* list findOptimalRecipeWithAlternatives returns on its normal, no-match
\* fallback and error fallback paths, has at most count elements.
C2_AtMostCount ==
    /\ Returned => Len(result) <= request.count
    /\ pc \in {"finish", "done"} /\ path # "none" => Len(recommended) <= request.count
    /\ call.op = "findOptimalRecipeWithAlternatives" /\ ~call.threw
           => Len(call.list) <= call.count

\* more recipes qualify than were asked for, and exactly count are returned
C2_Witness ==
    /\ Returned
    /\ request.count >= 1
    /\ Len(ValidRecipes(scored)) > request.count
    /\ Len(result) = request.count

\* C3: the list getRecommendedRecipes returns is ordered by score, highest
\* first: each result scores at least as much as the next one.
C3_SortedByScore ==
    Returned => \A i \in 1..(Len(result) - 1) : AtLeast(result[i].score, result[i + 1].score)

\* the stages of a request after both queries were answered
Computing == pc \in {"convert", "build", "solve", "score", "rank", "finish"}

\* C4: with an empty inventory, or an empty candidate recipe set, the request
\* returns [] in the step that receives the empty answer: nothing is
\* converted, no network is built, the solver does not run, nothing is thrown.
C4_EmptyInputReturnsEmpty ==
    /\ pc = "awaitRecipes" => ingredients # <<>>
    /\ Computing => ingredients # <<>> /\ recipes # <<>>
    /\ pc = "done" /\ errorSource # "db"
          /\ (dbInventory = <<>> \/ FilterByMealType(dbRecipes, request.mealType) = <<>>)
       => /\ outcome = "returned"
          /\ result = <<>>
          /\ weighted = <<>>
          /\ algoRecipes = <<>>
          /\ graph.vertices = <<>>
          /\ ~solver.ran
          /\ scored = <<>>
          /\ path = "none"

\* scenario B: an empty inventory and a non-empty recipe collection
C4_Witness ==
    /\ Returned
    /\ dbInventory = <<>>
    /\ dbRecipes # <<>>
    /\ result = <<>>

Nameless(ings) == \E i \in 1..Len(ings) : ings[i].name = Undefined

FindCalled == call.op = "findOptimalRecipeWithAlternatives"

\* the recipes the error fallback is to return for the call
FallbackPick == Slice(FilterByMealType(call.recipes, PreferredMealTypeOf(call.graph)),
                      call.count)

\* C6: when an exception is raised while findOptimalRecipeWithAlternatives
\* solves or scores, the call does not throw: it returns the first count
\* recipes that pass the meal-type filter, in input order, each with no used
\* ingredient, all its ingredients missed and a score in [0, 100].
C6_ErrorFallbackReturns ==
    FindCalled /\ call.raised
    => /\ ~call.threw
       /\ Len(call.list) = Len(FallbackPick)
       /\ \A j \in 1..Len(call.list) :
              /\ call.list[j].id = FallbackPick[j].id
              /\ call.list[j].usedIngredients = <<>>
              /\ call.list[j].missedIngredients = FallbackPick[j].ingredients
              /\ call.list[j].score \in 0..100

UsesNothing(list) == \A i \in 1..Len(list) : list[i].usedIngredients = <<>>
UsesSomething(list) == \A i \in 1..Len(list) : list[i].usedIngredients # <<>>
Ids(list) == {list[i].id : i \in 1..Len(list)}

\* C7: a recipe whose used-ingredient list is empty is discarded from the
\* ranked result; if no recipe is left, the result is the fallback list of at
\* most count meal-type-filtered recipes, each with usedIngredients = [] and
\* matchCount = 0.  A returned list never mixes recipes that use an inventory
\* ingredient with recipes that use none.
C7_ZeroMatchHandling ==
    pc \in {"finish", "done"} /\ path # "none"
    => /\ path = "normal"
          => /\ UsesSomething(recommended)
             /\ Ids(recommended) \subseteq Ids(ValidRecipes(scored))
             /\ \A i \in 1..Len(scored) :
                    scored[i].usedIngredients = <<>> => scored[i].id \notin Ids(recommended)
       /\ path = "nomatch"
          => /\ UsesNothing(scored)
             /\ UsesNothing(recommended)
             /\ \A i \in 1..Len(recommended) : recommended[i].matchCount = 0
             /\ Len(recommended) <= request.count
             /\ Ids(recommended) \subseteq Ids(FilterByMealType(algoRecipes, request.mealType))
       /\ UsesSomething(recommended) \/ UsesNothing(recommended)
       /\ Returned => /\ UsesSomething(result) \/ UsesNothing(result)
                      /\ \A i \in 1..Len(result) :
                             result[i].matchCount = Len(result[i].usedIngredients)

\* a recipe without a used ingredient was scored beside one with a used
\* ingredient, and only the latter is returned
C7_Witness ==
    /\ Returned
    /\ path = "normal"
    /\ \E i \in 1..Len(scored) : scored[i].usedIngredients = <<>>
    /\ result # <<>>
    /\ Len(result) < Len(scored)
    /\ request.count = MaxCount

\* scenario A: one inventory ingredient "Spinach" expiring in 2 days, one
\* candidate recipe of exactly ["Spinach"], requested meal type "any"
ScenarioA ==
    /\ Returned
    /\ request.mealType = "any"
    /\ request.count >= 1
    /\ Len(dbInventory) = 1
    /\ dbInventory[1].name = Spinach
    /\ dbInventory[1].hasExpiry
    /\ dbInventory[1].expiresIn = 2
    /\ Len(dbRecipes) = 1
    /\ dbRecipes[1].ingredients = <<Spinach>>

ScenarioAMatch ==
    /\ Len(result) = 1
    /\ result[1].usedIngredients = <<Spinach>>
    /\ result[1].missedIngredients = <<>>
    /\ result[1].isPerfectMatch

\* C8 as stated: in scenario A the single result uses ["Spinach"], misses
\* nothing, was scored on the perfect-match path and has score >= 70 for
\* every random draw.
C8_ScenarioAScoresAtLeast70 ==
    ScenarioA => ScenarioAMatch /\ AtLeast(result[1].score, 70)

\* C8 as the code has it: in scenario A (the quantity of the ingredient being
\* positive) the single result uses ["Spinach"], misses nothing, was scored on
\* the perfect-match path and has an integer score of at least 48 and at most
\* 100.
C8_ScenarioA ==
    ScenarioA /\ dbInventory[1].quantity > 0
    => ScenarioAMatch /\ result[1].score \in 48..100

\* scenario A with the lowest score: a recipe of another meal type, low draws
C8_Witness ==
    /\ ScenarioA
    /\ dbInventory[1].quantity > 0
    /\ ScenarioAMatch
    /\ result[1].score = 48

ScoreCalled == call.op \in {"calculateRecipeScore", "calculateRecipeScore twice"}

PositiveQuantities(used) == \A i \in 1..Len(used) : used[i].quantity > 0

\* C9: of two recipes that are identical except that one uses an ingredient
\* with daysUntilExpiry <= 7 where the other uses one with daysUntilExpiry > 7,
\* calculateRecipeScore scores the one with the expiring ingredient strictly
\* higher (quantities positive, same draw).
C9_ExpiringScoresHigher ==
    call.op = "calculateRecipeScore twice" /\ PositiveQuantities(call.used)
    => Above(call.expiringDetails.score, call.details.score)

\* no missed ingredient, and at least as many used ingredients as the recipe has
PerfectCall ==
    /\ ScoreCalled
    /\ call.details.missedCount = 0
    /\ Len(call.used) >= Len(call.recipe.ingredients)

\* C10 as stated: a recipe scored with no missed ingredient and at least as
\* many used ingredients as it has ingredients takes the perfect-match path
\* and scores at least expiryBasedMaxScore - 8, the cap of a non-perfect match
\* (quantities positive).
C10_PerfectMatchAboveCap ==
    PerfectCall /\ PositiveQuantities(call.used)
    => /\ call.details.isPerfectMatch
       /\ call.details.perfectMatchBonus = 12 * Scale
       /\ AtLeast(call.details.score, (call.details.expiryBasedMaxScore - 8) * Scale)

\* C10 as the code has it: such a recipe takes the perfect-match path (the
\* +12 bonus and the ceiling min(100, expiryBasedMaxScore)); its score is NaN
\* or an integer from 0 to that ceiling, with no lower limit at
\* expiryBasedMaxScore - 8.
C10_PerfectMatchPath ==
    PerfectCall
    => /\ call.details.isPerfectMatch
       /\ call.details.perfectMatchBonus = 12 * Scale
       /\ call.details.maxPossibleScore = Min(100, call.details.expiryBasedMaxScore)
       /\ \/ IsNaN(call.details.score)
          \/ /\ call.details.score % Scale = 0
             /\ call.details.score >= 0
             /\ call.details.score <= call.details.maxPossibleScore * Scale

\* a perfect match that scores below the cap of a non-perfect match
C10_Witness ==
    /\ PerfectCall
    /\ PositiveQuantities(call.used)
    /\ call.details.isPerfectMatch
    /\ ~IsNaN(call.details.score)
    /\ call.details.score < (call.details.expiryBasedMaxScore - 8) * Scale


-----------------------------------------------------------------------------
(* The solver: edmondsKarp on the network of a request *)

\* the sum of f over the set ids
\* the capacity and the flow (as held in `flows`) of the edges of the network
CapacityOf(edges) == [e \in DOMAIN edges |-> edges[e].capacity]
FlowOf(flows) == [e \in DOMAIN graph.edges |-> flows[e].flow]

\* f summed over the edges of the network from u into the vertices `into`, and
\* from the vertices `from` into v (graph.vertices holds every vertex once)
SumLeaving(f, u, into) ==
    SumSeq([j \in 1..Len(graph.vertices) |->
               IF graph.vertices[j] \in into /\ <<u, graph.vertices[j]>> \in DOMAIN f
               THEN f[<<u, graph.vertices[j]>>] ELSE 0])

SumEntering(f, v, from) ==
    SumSeq([i \in 1..Len(graph.vertices) |->
               IF graph.vertices[i] \in from /\ <<graph.vertices[i], v>> \in DOMAIN f
               THEN f[<<graph.vertices[i], v>>] ELSE 0])

\* the capacities of the edges of the network that leave the source, summed
SourceCapacity ==
    SumLeaving(CapacityOf(graph.edges), SourceVertex, Range(graph.vertices))

\* C11: the total flow of edmondsKarp is at most the sum of the capacities of
\* the edges leaving the source, for every network built by buildFlowNetwork,
\* whether or not the cap of 100 paths was hit.
C11_FlowAtMostSourceCapacity ==
    solver.ran => solver.flow <= SourceCapacity

\* the source side of every source-sink cut of the network
Cuts ==
    {side \cup {SourceVertex} :
        side \in SUBSET (Range(graph.vertices) \ {SourceVertex, SinkVertex})}

CutCapacity(side) ==
    SumSeq([i \in 1..Len(graph.vertices) |->
               IF graph.vertices[i] \in side
               THEN SumLeaving(CapacityOf(graph.edges), graph.vertices[i],
                               Range(graph.vertices) \ side)
               ELSE 0])

\* edmondsKarp has returned without a failed search and below the cap
StoppedBelowCap ==
    /\ pc = "score"
    /\ solver.ran
    /\ ~solver.failed
    /\ Len(solver.flowPaths) < maxPaths

\* C12: when edmondsKarp stops with fewer than 100 recorded paths, its flow is
\* a maximum flow: no path of positive residual capacity from source to sink
\* remains, and the value returned is the capacity of a minimum cut.
C12_MaximumFlow ==
    StoppedBelowCap =>
        /\ bfs(graph.vertices, solver.residualEdges, SourceVertex, SinkVertex) = NoPath
        /\ \E side \in Cuts : CutCapacity(side) = solver.flow
        /\ \A side \in Cuts : CutCapacity(side) >= solver.flow

\* no element of seq occurs twice
Distinct(seq) == Cardinality(Range(seq)) = Len(seq)

\* C13: edmondsKarp terminates: every iteration of its loop records one more
\* path and pushes a strictly positive amount, an iteration is made only
\* below 100 recorded paths, so that there are at most 100 augmentations and
\* 100 paths, and a search takes no vertex from its queue twice.
C13_Terminates ==
    /\ [](pc = "solve" =>
             Distinct(BfsVisits(graph.vertices, solver.residualEdges,
                                SourceVertex, SinkVertex)))
    /\ [][/\ Len(solver'.flowPaths) <= maxPaths
          /\ (pc = "solve" /\ pc' = "solve") =>
                 /\ Len(solver.flowPaths) < maxPaths
                 /\ Len(solver'.flowPaths) = Len(solver.flowPaths) + 1
                 /\ solver'.flow > solver.flow]_vars

\* the solver stopped at the cap although a path was left
C13_Witness ==
    /\ pc = "score"
    /\ Len(solver.flowPaths) = maxPaths
    /\ bfs(graph.vertices, solver.residualEdges, SourceVertex, SinkVertex) # NoPath

\* C14 as claimed: after a failed search edmondsKarp does not throw and returns
\* the total flow 0 and no path.
C14_FailedSearchReturnsZero ==
    (solver.failed /\ pc = "score") =>
        /\ outcome = "pending"
        /\ solver.flow = 0
        /\ solver.flowPaths = <<>>

\* C14: a failed search ends the loop of edmondsKarp without an exception, and
\* the flow and the paths of the augmentations made before it are returned
\* (0 and no path only when the first search fails).
C14_FailedSearchKeepsFlow ==
    [][(pc = "solve" /\ solver'.failed) =>
          /\ pc' = "score"
          /\ outcome' = "pending"
          /\ solver'.flow = solver.flow
          /\ solver'.flowPaths = solver.flowPaths
          /\ graph'.edges = WriteBackFlows(graph.edges, solver.residualEdges)]_vars

\* a search failed after an augmentation
C14_Witness ==
    /\ solver.failed
    /\ pc = "score"
    /\ solver.flow > 0
    /\ solver.flowPaths # <<>>

\* a flagged ingredient of the inventory
Flagged(id) == \E k \in 1..Len(ingredients) : ingredients[k].id = id /\ ingredients[k].aboutToExpire

\* C16: an ingredient with aboutToExpire = true weighs at least as much as any
\* ingredient without the flag under the same options (compared here between
\* ingredients of the same name, which the selection boost treats alike).
C16_FlaggedWeighsMost ==
    \A i, j \in 1..Len(weighted) :
        (/\ Flagged(weighted[i].id)
         /\ ~Flagged(weighted[j].id)
         /\ weighted[i].name = weighted[j].name)
        => weighted[i].weight >= weighted[j].weight

\* the recipe passes the filter of the preferred meal type
Allowed(recipe, preferredMealType) ==
    preferredMealType = "any" \/ recipe.mealType \in {preferredMealType, "any"}

AllAllowed(list, preferredMealType) ==
    \A j \in 1..Len(list) : Allowed(list[j], preferredMealType)

\* the network of the request has a vertex for exactly the recipes that pass
\* the filter, and the recipes the request gets from
\* findOptimalRecipeWithAlternatives pass it
FilteredInRequest ==
    /\ graph # NoGraph =>
           \A r \in Range(algoRecipes) :
               RecipeVertex(r.id) \in Range(graph.vertices)
                   <=> Allowed(r, PreferredMealTypeOf(graph))
    /\ pc \in {"rank", "finish", "done"} /\ path # "error" /\ graph # NoGraph =>
           /\ AllAllowed(scored, PreferredMealTypeOf(graph))
           /\ PreferredMealTypeOf(graph) = "any" => Len(scored) = Len(algoRecipes)
    /\ pc \in {"finish", "done"} /\ path # "none" =>
           AllAllowed(recommended, PreferredMealTypeOf(graph))

InnerVertices ==
    {IngredientVertex(weighted[i].id) : i \in 1..Len(weighted)}
    \cup {RecipeVertex(graph.filteredRecipes[j].id) : j \in 1..Len(graph.filteredRecipes)}

\* flows is a feasible flow on the edges of the network
Feasible(flows) ==
    /\ \A e \in DOMAIN graph.edges :
           0 <= flows[e].flow /\ flows[e].flow <= graph.edges[e].capacity
    /\ \A v \in InnerVertices :
           SumEntering(FlowOf(flows), v, Range(graph.vertices))
               = SumLeaving(FlowOf(flows), v, Range(graph.vertices))

\* C19: after every augmentation, and in the graph written back, the flows
\* are feasible: 0 <= flow <= capacity on every edge of the network and
\* conservation at every ingredient and recipe vertex, also at the cap.
C19_FeasibleFlow ==
    solver.ran => Feasible(solver.residualEdges) /\ Feasible(graph.edges)

\* C20: every edge (u,v) of the network has a reverse edge (v,u) of capacity 0
\* in the residual graph, at every step flow(v,u) = -flow(u,v), and the flow
\* of (u,v) never drops below 0: a search crosses (v,u) only up to the flow
\* on (u,v).
C20_ReverseEdges ==
    solver.ran =>
        \A e \in DOMAIN graph.edges :
            LET reverse == <<e[2], e[1]>>
            IN /\ reverse \in DOMAIN solver.residualEdges
               /\ solver.residualEdges[reverse].capacity = 0
               /\ solver.residualEdges[reverse].flow = 0 - solver.residualEdges[e].flow
               /\ solver.residualEdges[e].flow >= 0

\* a recorded path crosses a reverse edge: flow was cancelled
C20_Witness ==
    \E k \in 1..Len(solver.flowPaths) :
        \E e \in Range(PathEdges(solver.flowPaths[k])) :
            /\ e \notin DOMAIN graph.edges
            /\ solver.residualEdges[<<e[2], e[1]>>].flow < graph.edges[<<e[2], e[1]>>].capacity


\* the cap of the score as the claim gives it
ClaimedMaxScore(details, usedCount, total) ==
    LET expiryBased == 70 + Min(30, 10 * details.expiringCount)
    IN IF details.isPerfectMatch THEN expiryBased
       ELSE Min(expiryBased - 8,
                60 + Round((32 * usedCount * Scale) \div total) - 3 * details.missedCount)

\* C17: for every recipe and every non-empty list of used ingredients (of
\* positive quantity) calculateRecipeScore returns an integer r with
\* 0 <= r <= maxPossibleScore, the cap being the one the claim gives; r is
\* never negative, whatever the size of the recipe.
C17_ScoreWithinCap ==
    call.op = "calculateRecipeScore" /\ PositiveQuantities(call.used)
    => /\ call.details.maxPossibleScore
              = ClaimedMaxScore(call.details, Len(call.used), Len(call.recipe.ingredients))
       /\ call.details.score % Scale = 0
       /\ call.details.score >= 0
       /\ call.details.score <= call.details.maxPossibleScore * Scale

\* C18: the jitter only breaks exact ties: of two recipes whose scores
\* without jitter differ, the one with the lower score never comes out
\* strictly higher, whatever the two jitter values.
C18_JitterOnlyBreaksTies ==
    (call.op = "calculateRecipeScore with jitter" /\ call.lowerPlain < call.plain)
    => ~(call.lowerJittered > call.jittered)

-----------------------------------------------------------------------------
(* Routes of the flow, the edges of the network and the used lists *)

\* the vertices of addNutritionNodes
SideVertices ==
    {NutritionVertex(NutritionCategories[c]) : c \in 1..Len(NutritionCategories)}
        \cup {BalancedVertex}

IngredientVertices == {IngredientVertex(weighted[i].id) : i \in 1..Len(weighted)}

\* the edges of the network that are on no source-ingredient-recipe-sink
\* route: the edges that leave a nutrition or the balanced-meal vertex, the
\* source edge of an ingredient without a recipe edge, the sink edge of a
\* recipe that no ingredient has an edge to
OffRouteEdges ==
    {e \in DOMAIN graph.edges :
        \/ e[1] \in SideVertices
        \/ e[1] = SourceVertex /\ ~\E o \in DOMAIN graph.edges : o[1] = e[2]
        \/ e[2] = SinkVertex
               /\ ~\E o \in DOMAIN graph.edges : o[2] = e[1] /\ o[1] \in IngredientVertices}

\* C21: during and after edmondsKarp the flow is 0 on every edge that is on
\* no source-ingredient-recipe-sink route, in the residual graph and in the
\* graph written back, and no recorded augmenting path holds a nutrition or
\* the balanced-meal vertex.
C21_NoFlowOffRoutes ==
    solver.ran =>
        /\ \A e \in OffRouteEdges :
               solver.residualEdges[e].flow = 0 /\ graph.edges[e].flow = 0
        /\ \A k \in 1..Len(solver.flowPaths) :
               Range(solver.flowPaths[k]) \cap SideVertices = {}

\* edmondsKarp has returned a positive flow for a network that has an edge of
\* each of the three kinds
C21_Witness ==
    /\ pc = "score"
    /\ solver.flow > 0
    /\ \E e \in OffRouteEdges : e[1] \in SideVertices
    /\ \E e \in OffRouteEdges : e[1] = SourceVertex
    /\ \E e \in OffRouteEdges : e[2] = SinkVertex

\* the best fuzzy-match quality (milli) of the name of a weighted ingredient
\* against the ingredient list of a recipe
BestQuality(ingredient, recipe) ==
    findBestIngredientMatch(ToLowerCase(ingredient.name), recipe.ingredients).quality

\* the preferred meal types buildFlowNetwork is tried with
PreferredMealTypes == {"any", "dinner", "breakfast"}

\* g has the edge from ingredient i to recipe r exactly when r passes the
\* filter of the preferred meal type and the best quality is >= 0.6, and the
\* edge records that quality
EdgesByQuality(g, preferredMealType) ==
    \A i \in 1..Len(weighted) : \A r \in Range(algoRecipes) :
        LET edgeId == <<IngredientVertex(weighted[i].id), RecipeVertex(r.id)>>
        IN /\ edgeId \in DOMAIN g.edges
               <=> (Allowed(r, preferredMealType) /\ BestQuality(weighted[i], r) >= 600)
           /\ edgeId \in DOMAIN g.edges =>
                  g.edges[edgeId].matchQuality = BestQuality(weighted[i], r)

\* C22: the network buildFlowNetwork builds has the edge from ingredient i to
\* recipe r exactly when r passes the meal-type filter and the best match
\* quality of the name of i against the ingredients of r is >= 0.6; this holds
\* of the network of the request and of the network of any preferred meal
\* type for the same ingredients and recipes, and building raises no error
\* for named ingredients, whatever their qualities.
C22_EdgeIffQualityAtLeast600 ==
    /\ graph # NoGraph => EdgesByQuality(graph, request.mealType)
    /\ (pc = "build" /\ ~Nameless(weighted)) =>
           \A m \in PreferredMealTypes :
               /\ ~buildFlowNetworkThrows(weighted, algoRecipes, m)
               /\ EdgesByQuality(buildFlowNetwork(weighted, algoRecipes, m), m)

\* a network was built with an edge from one ingredient to a recipe and none
\* from another ingredient, of quality below 0.6, to a recipe that passed the
\* filter, for recipes of which another preferred meal type filters one out
C22_Witness ==
    /\ graph # NoGraph
    /\ \E i \in 1..Len(weighted) : \E r \in Range(algoRecipes) :
           <<IngredientVertex(weighted[i].id), RecipeVertex(r.id)>> \in DOMAIN graph.edges
    /\ \E i \in 1..Len(weighted) : \E q \in Range(algoRecipes) :
           /\ Allowed(q, request.mealType)
           /\ BestQuality(weighted[i], q) < 600
           /\ <<IngredientVertex(weighted[i].id), RecipeVertex(q.id)>> \notin DOMAIN graph.edges
    /\ \E r \in Range(algoRecipes) : \E m \in PreferredMealTypes : ~Allowed(r, m)

\* the edge of the network g from weighted ingredient i to the recipe
MatchEdgeId(i, recipe) == <<IngredientVertex(weighted[i].id), RecipeVertex(recipe.id)>>

\* the ingredients the claim counts as used by the recipe in g: the edge
\* exists and carries positive flow or has match quality >= 0.7
CountedAsUsed(g, recipe) ==
    {i \in 1..Len(weighted) :
        /\ MatchEdgeId(i, recipe) \in DOMAIN g.edges
        /\ \/ g.edges[MatchEdgeId(i, recipe)].flow > 0
           \/ g.edges[MatchEdgeId(i, recipe)].matchQuality >= 700}

\* the ingredients whose edge to the recipe carries positive flow
UsedByFlow(g, recipe) ==
    {i \in 1..Len(weighted) :
        /\ MatchEdgeId(i, recipe) \in DOMAIN g.edges
        /\ g.edges[MatchEdgeId(i, recipe)].flow > 0}

\* g with the match quality of every ingredient-recipe edge set to 0.65
WithQuality650(g) ==
    [g EXCEPT !.edges =
        [e \in DOMAIN g.edges |->
            IF g.edges[e].matchQuality > 0 THEN [g.edges[e] EXCEPT !.matchQuality = 650]
            ELSE g.edges[e]]]

\* C23: what findOptimalRecipeWithAlternatives reports of a recipe it scored
\* (the strings matched by its used ingredients, the number of its used
\* ingredients that expire within 7 days) is that of the ingredients whose
\* edge to the recipe exists and carries positive flow or has match quality
\* >= 0.7; with every quality of the solved network lowered to 0.65, the
\* ingredients that count as used are those of positive flow.
C23_UsedIffFlowOrQuality ==
    (pc = "rank" /\ graph # NoGraph) =>
        \A j \in 1..Len(scored) :
            LET recipe == FilteredRecipesOf(graph, algoRecipes)[j]
                counted == CountedAsUsed(graph, recipe)
            IN /\ scored[j].id = recipe.id
               /\ Range(scored[j].usedIngredients)
                      = {graph.edges[MatchEdgeId(i, recipe)].matchedWith : i \in counted}
               /\ scored[j].expiringIngredients
                      = Cardinality({i \in counted : weighted[i].daysUntilExpiry <= 7})
               /\ UsedIndexes(WithQuality650(graph), weighted, recipe)
                      = UsedByFlow(graph, recipe)

\* a scored recipe uses an ingredient whose edge carries positive flow and one
\* whose edge has quality >= 0.7 and no flow, and some scored recipe has no
\* edge from some ingredient
C23_Witness ==
    /\ pc = "rank"
    /\ graph # NoGraph
    /\ \E j \in 1..Len(scored) :
           LET recipe == FilteredRecipesOf(graph, algoRecipes)[j]
           IN /\ UsedByFlow(graph, recipe) # {}
              /\ CountedAsUsed(graph, recipe) \ UsedByFlow(graph, recipe) # {}
              /\ scored[j].usedIngredients # <<>>
    /\ \E j \in 1..Len(scored) : \E i \in 1..Len(weighted) :
           MatchEdgeId(i, FilteredRecipesOf(graph, algoRecipes)[j]) \notin DOMAIN graph.edges

\* the edges of the network from an ingredient to a recipe
MatchEdgeIds(g) ==
    {e \in DOMAIN g.edges : e[1] \in IngredientVertices /\ e[2] # SinkVertex}

\* the network as it was before edmondsKarp: flow 0 on every edge
Unsolved(g) ==
    [g EXCEPT !.edges = [e \in DOMAIN g.edges |-> [g.edges[e] EXCEPT !.flow = 0]]]

\* C24: every ingredient-recipe edge of a network buildFlowNetwork built has
\* match quality >= 0.7, and what findOptimalRecipeWithAlternatives computes
\* after edmondsKarp (the scored recipes with their used lists, missed lists
\* and scores, and the ranked lists) is, for the same random draws, what it
\* computes from the network with zero flow: it is the same for a maximum
\* flow, for the partial flow of a solve cut short, and for no flow.
C24_RankingIgnoresFlow ==
    (pc = "score" /\ ~ScoringThrows(graph, weighted, algoRecipes)) =>
        /\ \A e \in MatchEdgeIds(graph) : graph.edges[e].matchQuality >= 700
        /\ \A draws \in DrawsFor(Len(FilteredRecipesOf(graph, algoRecipes)), TRUE, ExtremeDraws) :
               LET scores == RecipeScores(graph, weighted, algoRecipes, draws)
               IN /\ scores = RecipeScores(Unsolved(graph), weighted, algoRecipes, draws)
                  /\ RankOutcomes(graph, algoRecipes, scores, request.count)
                         = RankOutcomes(Unsolved(graph), algoRecipes, scores, request.count)

\* edmondsKarp was cut short with a positive flow: one ingredient-recipe edge
\* carries flow, another carries none, and the recipes are about to be scored
C24_Witness ==
    /\ pc = "score"
    /\ ~ScoringThrows(graph, weighted, algoRecipes)
    /\ solver.failed
    /\ solver.flow > 0
    /\ \E e \in MatchEdgeIds(graph) : graph.edges[e].flow > 0
    /\ \E e \in MatchEdgeIds(graph) : graph.edges[e].flow = 0

\* C25: for every recipe scored, the number of used ingredients handed to
\* calculateRecipeScore is at most the number of ingredients of the recipe,
\* so that the coverage ratio is a fraction in [0,1], also when several
\* inventory items best-match the same recipe ingredient string.
C25_CoverageIsFraction ==
    (pc = "rank" /\ graph # NoGraph) =>
        \A j \in 1..Len(scored) :
            LET recipe == FilteredRecipesOf(graph, algoRecipes)[j]
                used == UsedIngredientsWithExpiry(graph, weighted, recipe)
            IN /\ Len(used) <= Len(recipe.ingredients)
               /\ Len(used) * Scale <= Scale * Max(1, Len(recipe.ingredients))

-----------------------------------------------------------------------------
(* The used and the missed ingredients of a result.  The recipe schema      *)
(* stores the ingredient strings as they come (ingredients: [{ type:        *)
(* String }]) and nothing on the way to the algorithm looks at them, so a   *)
(* recipe may hold an empty ingredient string.                              *)

\* a recipe document with an empty ingredient string
BlankRecipe ==
    [id |-> "r5", ingredients |-> << <<>>, <<"B", "u", "t", "t", "e", "r">> >>,
     mealType |-> "any"]

\* the recipe collection holds the recipe with the empty ingredient string
InitBlank ==
    /\ dbInventory \in SubSeqsOf(InventoryCatalog, MaxInventory)
    /\ dbRecipes \in {<<BlankRecipe>>}
                         \cup {<<RecipeCatalog[k], BlankRecipe>> : k \in 1..Len(RecipeCatalog)}
    /\ Idle
    /\ call = NoCall

SpecBlank == InitBlank /\ [][Next]_vars

\* the strings of a list, lower-cased
LowerCased(list) == {ToLowerCase(list[i]) : i \in 1..Len(list)}

\* the used and the missed list of a result split the ingredient list of its recipe
SplitsRecipe(entry, recipe) ==
    LET used == LowerCased(entry.usedIngredients)
        missed == LowerCased(entry.missedIngredients)
        listed == LowerCased(recipe.ingredients)
    IN /\ \A a, b \in 1..Len(entry.usedIngredients) :
              entry.usedIngredients[a] = entry.usedIngredients[b] => a = b
       /\ \A s \in listed : (s \in used) # (s \in missed)
       /\ used \cup missed \subseteq listed

-----------------------------------------------------------------------------
(* The selection of ingredients in convertToWeightedIngredients *)

\* the selectedIngredients a request may carry: absent, empty, names in another
\* case, a part of a name, the empty name
SelectionOptions ==
    {[prioritizeExpiring |-> p, selectedIngredients |-> sel] :
        p \in BOOLEAN,
        sel \in {UndefinedList, <<>>,
                 << <<"m", "i", "l", "k">>, <<"S", "P", "I", "N", "A", "C", "H">> >>,
                 << <<"s", "a", "l", "t">> >>,
                 << <<"B", "a", "b", "y", " ", "S", "p", "i", "n", "a", "c", "h">> >>,
                 << <<>> >>}}

\* name contains, or is contained in, some selected name, compared in lower case
NameSelected(name, selectedIngredients) ==
    \E k \in 1..Len(selectedIngredients) :
        LET a == ToLowerCase(name)
            b == ToLowerCase(selectedIngredients[k])
        IN Includes(a, b) \/ Includes(b, a)

\* w is the list the claim describes for the inventory ings and the options
SelectionHolds(ings, options, w) ==
    LET sel == options.selectedIngredients
        nonEmpty == sel # UndefinedList /\ Len(sel) > 0
        kept == SelectSeq([i \in 1..Len(ings) |-> i],
                          LAMBDA i : nonEmpty => NameSelected(ings[i].name, sel))
    IN /\ Len(w) = Len(kept)
       /\ \A n \in 1..Len(kept) :
              /\ w[n].id = ings[kept[n]].id
              /\ w[n].weight = IF nonEmpty
                               THEN 2 * UrgencyWeight(ings[kept[n]], options)
                               ELSE UrgencyWeight(ings[kept[n]], options)
              /\ w[n].weight > 0

\* C27: with a non-empty selectedIngredients the weighted ingredients are
\* exactly the inventory items whose name contains, or is contained in, a
\* selected name (case-insensitive), each with twice its urgency weight; with
\* selectedIngredients absent or empty no item is dropped and none is boosted;
\* every weight is > 0.
C27_SelectionFiltersAndBoosts ==
    /\ pc = "build" => SelectionHolds(ingredients, request.options, weighted)
    /\ pc = "convert" =>
           \A options \in SelectionOptions :
               ~convertToWeightedIngredientsThrows(ingredients, options) =>
                   SelectionHolds(ingredients, options,
                                  convertToWeightedIngredients(ingredients, options))

\* a request has selected names: one inventory item was dropped, another was
\* kept and boosted; an empty selection would keep both without a boost
C27_Witness ==
    /\ pc = "build"
    /\ HasSelection(request.options)
    /\ Len(ingredients) = 2
    /\ Len(weighted) = 1
    /\ weighted[1].weight = 2 * UrgencyWeight(ingredients[1], request.options)
    /\ weighted[1].id = ingredients[1].id
    /\ LET none == [request.options EXCEPT !.selectedIngredients = <<>>]
       IN /\ Len(convertToWeightedIngredients(ingredients, none)) = 2
          /\ convertToWeightedIngredients(ingredients, none)[1].weight
                 = UrgencyWeight(ingredients[1], none)

-----------------------------------------------------------------------------
(* The fuzzy matcher as a function of the inventory name and the list of    *)
(* recipe ingredient strings                                               *)

\* inventory names beside those of the catalog
MatchNames ==
    {<<"m", "i", "l", "k">>,
     <<"s", "e", "a", " ", "s", "a", "l", "t">>,
     <<"s", "p", "i", "n", "a", "c", "h">>,
     <<"o", "l", "i", "v", "e", " ", "o", "i", "l">>,
     <<"t", "h", "e">>,
     <<"M", "i", "l", "k", ".">>}

\* ingredient lists beside those of the catalog
MatchLists ==
    {<< <<"2", "%", " ", "M", "i", "l", "k">> >>,
     << <<"M", "i", "l", "k">> >>,
     << <<"S", "a", "l", "t", " ", "a", "n", "d", " ", "p", "e", "p", "p", "e", "r">>, <<"S", "e", "a", " ", "S", "a", "l", "t">> >>,
     << <<"S", "p", "i", "n", "a", "c", "h">>, <<"s", "p", "i", "n", "a", "c", "h">> >>,
     << <<"O", "l", "i", "v", "e", "s", " ", "i", "n", " ", "b", "r", "i", "n", "e">>, <<"O", "l", "i", "v", "e", " ", "o", "i", "l", " ", "(", "c", "o", "l", "d", ")">>, <<"C", "o", "l", "d", " ", "o", "l", "i", "v", "e", " ", "o", "i", "l">> >>,
     <<>>,
     << <<>>, <<"B", "u", "t", "t", "e", "r">> >>,
     << <<"S", "e", "a", " ", "b", "a", "s", "s">>, <<"R", "o", "c", "k", " ", "s", "a", "l", "t">> >>}

\* the tier value of one normalized recipe string for a normalized inventory name
TierValue(inv, rec) ==
    IF rec = inv THEN 1000
    ELSE IF Includes(rec, inv) \/ Includes(inv, rec)
         THEN 700 + (250 * Min(Len(inv), Len(rec))) \div Max(Len(inv), Len(rec))
         ELSE WordMatchQuality(inv, rec)

\* the tier a pair falls in
TierOf(inv, rec) ==
    IF rec = inv THEN "exact"
    ELSE IF Includes(rec, inv) \/ Includes(inv, rec) THEN "contains"
    ELSE IF WordMatchQuality(inv, rec) > 0 THEN "word"
    ELSE "none"

\* findBestIngredientMatch(name, list) is what the claim describes
MatchAsClaimed(name, list) ==
    LET m == findBestIngredientMatch(name, list)
        inv == normalizeIngredient(name)
        tier == [i \in 1..Len(list) |-> TierValue(inv, normalizeIngredient(list[i]))]
        kind == [i \in 1..Len(list) |-> TierOf(inv, normalizeIngredient(list[i]))]
        best == IF list = <<>> THEN 0
                ELSE CHOOSE v \in Range(tier) : \A u \in Range(tier) : u <= v
    IN /\ m.quality = best
       /\ m.quality >= 0 /\ m.quality <= 1000
       /\ \A i \in 1..Len(list) :
              /\ kind[i] = "contains" => tier[i] >= 700 /\ tier[i] <= 950
              /\ kind[i] = "word" => tier[i] <= 900
              /\ kind[i] = "none" => tier[i] = 0
       /\ (m.ingredient = Undefined) <=> (m.quality = 0)
       /\ best > 0 =>
              \E i \in 1..Len(list) :
                  /\ m.ingredient = list[i]
                  /\ tier[i] = best
                  /\ \A k \in 1..(i - 1) : tier[k] < best

\* the matcher is called, as buildFlowNetwork calls it, with the lower-cased
\* name of an inventory document or another name and the ingredient list of a
\* recipe or another list
CallFindBestMatch ==
    /\ pc = "idle"
    /\ call = NoCall
    /\ \E name \in {ToLowerCase(Named(dbInventory)[i].name) :
                        i \in 1..Len(Named(dbInventory))} \cup MatchNames,
          list \in {dbRecipes[j].ingredients : j \in 1..Len(dbRecipes)} \cup MatchLists :
           call' = [op |-> "findBestIngredientMatch",
                    ingredientName |-> name,
                    recipeIngredients |-> list,
                    match |-> findBestIngredientMatch(name, list)]
    /\ UNCHANGED <<pc, request, dbInventory, dbRecipes, ingredients, recipes, weighted,
                   algoRecipes, graph, solver, scored, recommended, result, outcome,
                   errorSource, path>>

\* units a stored ingredient may carry (the schema takes any string)
UnitNames ==
    {"unit", "piece", "package", "g", "ml", "lb", "cups",
     "kg", "KG", "kilo", "Kilo", "kilogram", "Kilogram",
     "liter", "Liter", "l", "L",
     "tbsp", "Tbsp", "tablespoon", "Tablespoon",
     "tsp", "TSP", "teaspoon", "cup", "Cup"}

\* quantities in milli: 0, 0.5, 1, 2 and a negative one
Quantities == {0, 500, 1000, 2000, 0 - 2000}

\* normalizeQuantity is called, as buildFlowNetwork calls it, with the quantity
\* and the unit of an ingredient, and once more with its own result
CallNormalizeQuantity ==
    /\ pc = "idle"
    /\ call = NoCall
    /\ \E quantity \in Quantities,
          unit \in UnitNames \cup {dbInventory[i].unit : i \in 1..Len(dbInventory)} :
           call' = [op |-> "normalizeQuantity",
                    quantity |-> quantity,
                    unit |-> unit,
                    value |-> normalizeQuantity(quantity, unit),
                    again |-> normalizeQuantity(normalizeQuantity(quantity, unit), unit)]
    /\ UNCHANGED <<pc, request, dbInventory, dbRecipes, ingredients, recipes, weighted,
                   algoRecipes, graph, solver, scored, recommended, result, outcome,
                   errorSource, path>>

NextMatch ==
    \/ CallFindBestMatch
    \/ CallNormalizeQuantity

SpecMatch == Init /\ [][NextMatch]_vars

\* a call of the matcher was made
MatchCalled == call.op = "findBestIngredientMatch"

\* C28: findBestIngredientMatch returns a quality in [0,1] equal to the largest
\* tier value over the strings (1.0 exact, 0.7 + 0.25 x length ratio in
\* [0.7, 0.95] for containment, else the word value of at most 0.9, else 0),
\* with the first string that attains it, and null exactly when the quality is 0.
C28_BestMatchIsFirstMaximum ==
    MatchCalled =>
        /\ call.match = findBestIngredientMatch(call.ingredientName, call.recipeIngredients)
        /\ MatchAsClaimed(call.ingredientName, call.recipeIngredients)

\* the best string is a containment match behind a string of a lower tier
\* while another string of the list ties with it further on
C28_Witness ==
    /\ MatchCalled
    /\ LET name == normalizeIngredient(call.ingredientName)
           list == call.recipeIngredients
       IN /\ Len(list) = 3
          /\ TierOf(name, normalizeIngredient(list[1])) = "word"
          /\ TierOf(name, normalizeIngredient(list[2])) = "contains"
          /\ call.match.ingredient = list[2]
          /\ call.match.quality > 850 /\ call.match.quality < 950
          /\ findLastBestIngredientMatch(call.ingredientName, list).ingredient = list[3]

-----------------------------------------------------------------------------
(* The conversion of quantities *)

\* a call of normalizeQuantity was made
NormalizeCalled == call.op = "normalizeQuantity"

\* the factor the specification gives a unit, compared in lower case
ClaimedFactor(unit) ==
    CASE UnitLower(unit) \in {"kilogram", "kg", "liter", "l"} -> 1000
      [] UnitLower(unit) = "tablespoon" -> 15
      [] UnitLower(unit) = "teaspoon" -> 5
      [] UnitLower(unit) = "cup" -> 240
      [] OTHER -> 1

\* the factor of the seven unit strings the code names, compared in lower case
CodeFactor(unit) ==
    CASE UnitLower(unit) \in {"kilo", "kg", "liter", "l"} -> 1000
      [] UnitLower(unit) = "tbsp" -> 15
      [] UnitLower(unit) = "tsp" -> 5
      [] UnitLower(unit) = "cup" -> 240
      [] OTHER -> 1

\* C29 as stated: normalizeQuantity multiplies by 1000 for kilogram, kg, liter
\* and l, by 15 for tablespoon, by 5 for teaspoon, by 240 for cup, and leaves
\* the quantity unchanged for every other unit; for a unit it leaves unchanged
\* a second application changes nothing.
C29_NormalizeQuantity ==
    NormalizeCalled =>
        /\ call.value = call.quantity * ClaimedFactor(call.unit)
        /\ ClaimedFactor(call.unit) = 1 => call.again = call.value

\* C29 amended: normalizeQuantity multiplies by 1000 for the unit strings kilo,
\* kg, liter and l, by 15 for tbsp, by 5 for tsp, by 240 for cup, compared in
\* lower case, and leaves the quantity unchanged for every other unit string
\* (kilogram, tablespoon and teaspoon among them); for a unit it leaves
\* unchanged a second application changes nothing.
C29_NormalizeQuantityByCodeNames ==
    NormalizeCalled =>
        /\ call.value = call.quantity * CodeFactor(call.unit)
        /\ call.again = call.value * CodeFactor(call.unit)
        /\ CodeFactor(call.unit) = 1 => call.again = call.value
        /\ UnitLower(call.unit) \in {"kilogram", "tablespoon", "teaspoon"} =>
               call.value = call.quantity

\* 2 tablespoons written 'Tbsp' become 30 ml
C29_Witness ==
    /\ NormalizeCalled
    /\ call.unit = "Tbsp"
    /\ call.quantity = 2000
    /\ call.value = 30000

-----------------------------------------------------------------------------
(* Two requests in flight.  getRecommendedRecipes awaits twice (the         *)
(* inventory query and the recipe query); between two awaits it runs        *)
(* without interruption, so two requests interleave at their awaits only.   *)
(* The module keeps no state outside the call: every value of a request is  *)
(* a local of its call.  The variables of the model hold the request that   *)
(* runs, call holds the one that waits, each with the inventory of its      *)
(* user; the recipe collection is the same for both.                        *)

\* the locals of the request that runs, and the inventory of its user
Locals ==
    [op |-> "getRecommendedRecipes", pc |-> pc, request |-> request,
     dbInventory |-> dbInventory, ingredients |-> ingredients, recipes |-> recipes,
     weighted |-> weighted, algoRecipes |-> algoRecipes, graph |-> graph,
     solver |-> solver, scored |-> scored, recommended |-> recommended,
     result |-> result, outcome |-> outcome, errorSource |-> errorSource,
     path |-> path]

\* a module that keeps the fetched inventory in a variable of its own: the
\* request that resumes finds the inventory of the request that ran last
KeptWithSharedInventory(locals) == [locals EXCEPT !.ingredients = ingredients]

\* what a call finds in its locals when it resumes: what it left there
Kept(locals) == locals

\* the inventories of the two users
PairInventories ==
    {<< <<InventoryCatalog[1], InventoryCatalog[3]>>,
        <<InventoryCatalog[2], InventoryCatalog[4]>> >>,
     << <<InventoryCatalog[3]>>, <<>> >>}

\* where a call of getRecommendedRecipes is when another call can run
AwaitPoints == {"idle", "awaitInventory", "awaitRecipes", "done"}

InitPair ==
    /\ dbRecipes = <<RecipeCatalog[1], RecipeCatalog[3]>>
    /\ Idle
    /\ \E inv \in PairInventories :
           /\ dbInventory = inv[1]
           /\ call = [op |-> "getRecommendedRecipes", pc |-> "idle", request |-> NoRequest,
                      dbInventory |-> inv[2], ingredients |-> <<>>, recipes |-> <<>>,
                      weighted |-> <<>>, algoRecipes |-> <<>>, graph |-> NoGraph,
                      solver |-> IdleSolver, scored |-> <<>>, recommended |-> <<>>,
                      result |-> <<>>, outcome |-> "pending", errorSource |-> "none",
                      path |-> "none"]

\* a controller calls getRecommendedRecipes for MaxCount recipes
StartPaired == Start /\ request'.count = MaxCount

\* the request that runs waits (or has not started, or is done) and the event
\* loop runs the other request
Yield ==
    /\ pc \in AwaitPoints
    /\ call.op = "getRecommendedRecipes"
    /\ call' = Locals
    /\ LET mine == Kept(call)
       IN /\ pc' = mine.pc
          /\ request' = mine.request
          /\ dbInventory' = mine.dbInventory
          /\ ingredients' = mine.ingredients
          /\ recipes' = mine.recipes
          /\ weighted' = mine.weighted
          /\ algoRecipes' = mine.algoRecipes
          /\ graph' = mine.graph
          /\ solver' = mine.solver
          /\ scored' = mine.scored
          /\ recommended' = mine.recommended
          /\ result' = mine.result
          /\ outcome' = mine.outcome
          /\ errorSource' = mine.errorSource
          /\ path' = mine.path
    /\ UNCHANGED dbRecipes

NextPair ==
    \/ StartPaired
    \/ InventoryArrives
    \/ InventoryFails
    \/ RecipesArrive
    \/ RecipesFail
    \/ Convert
    \/ BuildNetwork
    \/ Augment
    \/ SolveDone
    \/ ScoreRecipes
    \/ Rank
    \/ Finish
    \/ Yield

SpecPair == InitPair /\ [][NextPair]_vars

\* the network a request builds alone from the inventory of its user
OwnNetwork(l) ==
    buildFlowNetwork(convertToWeightedIngredients(l.dbInventory, l.request.options),
                     l.algoRecipes, l.request.mealType)

\* the locals l are what the request computes alone from the inventory of its
\* user, the recipe collection and its own draws
RunsAlone(l) ==
    /\ l.pc \in {"awaitRecipes", "convert", "build", "solve", "score", "rank", "finish"} =>
           l.ingredients = l.dbInventory
    /\ l.pc \in {"convert", "build", "solve", "score", "rank", "finish"} =>
           l.recipes = FilterByMealType(dbRecipes, l.request.mealType)
    /\ l.pc \in {"build", "solve", "score", "rank", "finish"} =>
           /\ l.weighted = convertToWeightedIngredients(l.dbInventory, l.request.options)
           /\ \E draws \in [1..Len(l.recipes) -> ExtremeDraws] :
                  l.algoRecipes = convertDbRecipesToAlgoFormat(l.recipes, l.request.mealType,
                                                               draws)
    /\ l.pc = "solve" =>
           /\ l.graph = OwnNetwork(l)
           /\ Len(l.solver.flowPaths) = 0 => l.solver = InitSolver(OwnNetwork(l))
    /\ l.pc = "score" => l.graph = edmondsKarp(OwnNetwork(l))
    /\ l.pc = "rank" =>
           \E draws \in DrawsFor(Len(FilteredRecipesOf(l.graph, l.algoRecipes)), TRUE,
                                 RandomDraws) :
               l.scored = RecipeScores(l.graph, l.weighted, l.algoRecipes, draws)
    /\ (l.pc = "finish" /\ l.path \in {"normal", "nomatch"}) =>
           l.recommended \in RankOutcomes(l.graph, l.algoRecipes, l.scored, l.request.count)
    /\ (l.pc = "done" /\ l.outcome = "returned" /\ l.path # "none") =>
           l.result \in SortOutcomes(NormalizedRecipes(l.recommended, l.dbInventory))
    /\ (l.pc = "done" /\ l.outcome = "returned" /\ l.path = "none") =>
           /\ l.result = <<>>
           /\ l.dbInventory = <<>> \/ FilterByMealType(dbRecipes, l.request.mealType) = <<>>

\* C30: two requests whose awaits interleave in any order do not affect each
\* other: at every step the request that runs and the request that waits hold
\* what each computes alone from its own inventory, the recipe collection and
\* its own draws, network, flow, scores and result included.
C30_RequestsDoNotInterfere ==
    call.op = "getRecommendedRecipes" => RunsAlone(Locals) /\ RunsAlone(call)

\* one request has returned recipes while the other, of another user and for
\* another meal type, waits for its recipes with its own inventory
C30_Witness ==
    /\ call.op = "getRecommendedRecipes"
    /\ pc = "done" /\ outcome = "returned" /\ result # <<>>
    /\ call.pc = "awaitRecipes"
    /\ call.ingredients # <<>>
    /\ call.ingredients # ingredients
    /\ call.request.mealType # request.mealType

=============================================================================
